---------------------------- MODULE Spec2Model ----------------------------
(***************************************************************************)
(* A model of jax/_src/prng.py: the Threefry-2x32 hash, the threefry PRNG  *)
(* implementation (seed, split, fold_in, random_bits), the PRNGKeyArray    *)
(* value type and the wrap/unwrap primitives; and of                       *)
(* jax/experimental/gda_serialization/serialization.py: the byte limiter   *)
(* and the asynchronous checkpoint manager.                                *)
(*                                                                         *)
(* Machine integers are bit vectors: a value of width w is a sequence of w *)
(* bits, least significant first (TLC's own integers stop at 2^31-1, so a  *)
(* uint32 word cannot be one of them).  Addition wraps at the width.       *)
(***************************************************************************)
EXTENDS Integers, Sequences, FiniteSets, TLC

\* ------------------------------------------------------------------------
\* Bit vectors
\* ------------------------------------------------------------------------

\* np.uint32: 32 bits
WordBits == 32

RECURSIVE ToBits(_, _)
\* the w low bits of the natural number n, least significant first
ToBits(n, w) == IF w = 0 THEN <<>> ELSE <<n % 2>> \o ToBits(n \div 2, w - 1)

\* the 32-bit word hi * 2^16 + lo
Word(hi, lo) == ToBits(lo, 16) \o ToBits(hi, 16)

\* a small natural number as a uint32
U32(n) == ToBits(n, WordBits)

\* A function over 1..n as a tuple (TLC evaluates a tuple once and keeps it).
Tup(f) == f \o <<>>

Zeros(w) == Tup([i \in 1..w |-> 0])
Ones(w) == Tup([i \in 1..w |-> 1])

\* x ^ y
xor(x, y) == Tup([i \in 1..Len(x) |-> (x[i] + y[i]) % 2])
\* x | y
bor(x, y) == Tup([i \in 1..Len(x) |-> IF x[i] + y[i] > 0 THEN 1 ELSE 0])
\* x & y
bitwise_and(x, y) == Tup([i \in 1..Len(x) |-> x[i] * y[i]])

\* lax.shift_left(x, d): bits move up by d, zeros come in; d >= width gives 0
shift_left(x, d) ==
  Tup([i \in 1..Len(x) |-> IF i - d >= 1 THEN x[i - d] ELSE 0])

\* a shift to the right that brings in copies of the top bit
shift_right_arithmetic(x, d) ==
  Tup([i \in 1..Len(x) |-> IF i + d <= Len(x) THEN x[i + d] ELSE x[Len(x)]])

\* lax.shift_right_logical(x, d): bits move down by d, zeros come in
shift_right_logical(x, d) ==
  Tup([i \in 1..Len(x) |-> IF i + d <= Len(x) THEN x[i + d] ELSE 0])

\* 2^0 .. 2^16
Pow2 == <<1, 2, 4, 8, 16, 32, 64, 128, 256, 512, 1024, 2048, 4096, 8192,
          16384, 32768, 65536>>

\* the number held by the 16 bits of x above bit o
Half(x, o) ==
    x[o + 1] + 2 * x[o + 2] + 4 * x[o + 3] + 8 * x[o + 4]
  + 16 * x[o + 5] + 32 * x[o + 6] + 64 * x[o + 7] + 128 * x[o + 8]
  + 256 * x[o + 9] + 512 * x[o + 10] + 1024 * x[o + 11] + 2048 * x[o + 12]
  + 4096 * x[o + 13] + 8192 * x[o + 14] + 16384 * x[o + 15]
  + 32768 * x[o + 16]

\* uint32 x + y: modulo 2^32 (the carry out of the top bit is dropped),
\* computed on the two 16-bit halves
add(x, y) ==
  LET sum(lo, hi) ==
        Tup([i \in 1..WordBits |->
               IF i <= 16 THEN (lo \div Pow2[i]) % 2
               ELSE ((hi + (lo \div Pow2[17])) \div Pow2[i - 16]) % 2])
  IN  sum(Half(x, 0) + Half(y, 0), Half(x, 16) + Half(y, 16))

\* ------------------------------------------------------------------------
\* Threefry-2x32
\* ------------------------------------------------------------------------

\* a rotation to the right in place of the rotation to the left
rotate_right(x, d) ==
  bor(shift_right_logical(x, d), shift_left(x, WordBits - d))

\* _make_rotate_left(np.uint32)
rotate_left(x, d) ==
  bor(shift_left(x, d), shift_right_logical(x, WordBits - d))

\* v once evaluated, then e.  TLC evaluates an operator's arguments and LET
\* definitions on demand; this fixes the order of a long straight-line
\* computation (its value is e).
After(v, e) == IF v = v THEN e ELSE e

\* v[0] = v[0] + v[1]; v[1] = rotate_left(v[1], rot); v[1] = v[0] ^ v[1]
apply_round(v, rot) ==
  LET mix(v0, v1) == <<v0, xor(v0, v1)>>
  IN  mix(add(v[1], v[2]), rotate_left(v[2], rot))

rotate_list(xs) == Tail(xs) \o <<Head(xs)>>

RECURSIVE apply_rounds(_, _)
\* for r in rots: x = apply_round(x, r)
apply_rounds(x, rots) ==
  IF rots = <<>> THEN x
  ELSE LET rest(y) == After(y, apply_rounds(y, Tail(rots)))
       IN  rest(apply_round(x, Head(rots)))

\* the two rotation vectors of _threefry2x32_lowering
rotations == << <<13, 15, 26, 6>>, <<17, 29, 16, 24>> >>

\* 0x1BD11BDA
KsParity == Word(7121, 7130)

\* a key schedule whose third word leaves out the constant
key_schedule_no_parity(key1, key2) == <<key1, key2, xor(key1, key2)>>

key_schedule(key1, key2) == <<key1, key2, xor(xor(key1, key2), KsParity)>>

\* x[0] + ka, x[1] + kb + n
inject(x, ka, kb, n) == <<add(x[1], ka), add(add(x[2], kb), U32(n))>>

\* a loop body that leaves the rotation vectors as they are
rolled_loop_step_same_rotations(i, state) ==
  <<inject(apply_rounds(state[1], state[3][1]), state[2][1], state[2][2], i + 1),
    rotate_list(state[2]), state[3]>>

\* state = (x, ks, rotations)
rolled_loop_step(i, state) ==
  <<inject(apply_rounds(state[1], state[3][1]), state[2][1], state[2][2], i + 1),
    rotate_list(state[2]), rotate_list(state[3])>>

RECURSIVE fori_loop(_, _, _)
\* lax.fori_loop(lower, upper, rolled_loop_step, state)
fori_loop(lower, upper, state) ==
  IF lower >= upper THEN state
  ELSE LET rest(s) == After(s, fori_loop(lower + 1, upper, s))
       IN  rest(rolled_loop_step(lower, state))

\* the two initial injections, x[0] + ks[0] and x[1] + ks[1]
initial_injection(ks, x1, x2) == <<add(x1, ks[1]), add(x2, ks[2])>>

\* the number of iterations of the rolled loop
NumRounds == 5

threefry2x32_rolled(key1, key2, x1, x2) ==
  LET ks == key_schedule(key1, key2)
      x == initial_injection(ks, x1, x2)
  IN  fori_loop(0, NumRounds, <<x, rotate_list(ks), rotations>>)[1]

\* the five groups of four rounds written out, each followed by its injection
threefry2x32_unrolled(key1, key2, x1, x2) ==
  LET ks == key_schedule(key1, key2)
      group(x, rots, ka, kb, n) == After(x, inject(apply_rounds(x, rots), ka, kb, n))
  IN  group(group(group(group(group(initial_injection(ks, x1, x2),
                                    rotations[1], ks[2], ks[3], 1),
                              rotations[2], ks[3], ks[1], 2),
                        rotations[1], ks[1], ks[2], 3),
                  rotations[2], ks[2], ks[3], 4),
            rotations[1], ks[3], ks[1], 5)

threefry2x32_lowering(key1, key2, x1, x2, use_rolled_loops) ==
  IF use_rolled_loops THEN threefry2x32_rolled(key1, key2, x1, x2)
  ELSE threefry2x32_unrolled(key1, key2, x1, x2)

\* ------------------------------------------------------------------------
\* Arrays: a shape, a dtype and the elements in row-major order
\* ------------------------------------------------------------------------

VARIABLES platform, x64

Arr(shape, dtype, data) == [shape |-> shape, dtype |-> dtype, data |-> data]

\* what an operation that raises returns
Raise(e) == [err |-> e]
IsErr(v) == "err" \in DOMAIN v

RECURSIVE prod(_)
prod(shape) == IF shape = <<>> THEN 1 ELSE Head(shape) * prod(Tail(shape))

IntDtypes == {"uint8", "uint16", "uint32", "uint64", "int32", "int64"}
SignedDtypes == {"int32", "int64"}

\* jnp.iinfo(dtype).bits
DtypeBits(dtype) ==
  CASE dtype = "uint8" -> 8
    [] dtype = "uint16" -> 16
    [] dtype \in {"uint32", "int32"} -> 32
    [] dtype \in {"uint64", "int64"} -> 64

\* UINT_DTYPES
UINT_DTYPES(bit_width) ==
  CASE bit_width = 8 -> "uint8"
    [] bit_width = 16 -> "uint16"
    [] bit_width = 32 -> "uint32"
    [] bit_width = 64 -> "uint64"

\* dtypes.canonicalize_dtype: 64-bit integers become 32-bit unless x64 is on
canonicalize_dtype(dtype) ==
  IF x64 THEN dtype
  ELSE CASE dtype = "int64" -> "int32"
         [] dtype = "uint64" -> "uint32"
         [] OTHER -> dtype

\* lax.convert_element_type between integer dtypes, to the canonical form of
\* the requested dtype: the low bits when narrowing, sign- or zero-extension
\* when widening
convert_element_type(v, from, to) ==
  LET w == DtypeBits(canonicalize_dtype(to))
      fill == IF from \in SignedDtypes THEN v[Len(v)] ELSE 0
  IN  Tup([i \in 1..w |-> IF i <= Len(v) THEN v[i] ELSE fill])

\* the dtype of seed & np.uint32(..) under jax.numpy_dtype_promotion('standard')
promote_with_uint32(dtype) ==
  CASE dtype \in {"uint8", "uint16", "uint32"} -> "uint32"
    [] dtype = "uint64" -> "uint64"
    [] dtype \in {"int32", "int64"} -> canonicalize_dtype("int64")

\* element i (from 0) along the leading `n` axes of array a
Elem(a, n, i) ==
  LET rest == SubSeq(a.shape, n + 1, Len(a.shape))
      sz == prod(rest)
  IN  Arr(rest, a.dtype, SubSeq(a.data, i * sz + 1, (i + 1) * sz))

RECURSIVE Flatten(_)
\* the concatenation of a sequence of sequences
Flatten(ss) == IF ss = <<>> THEN <<>> ELSE Head(ss) \o Flatten(Tail(ss))

\* lax.iota(np.uint32, n)
iota(n) == Arr(<<n>>, "uint32", Tup([i \in 1..n |-> U32(i - 1)]))

\* ------------------------------------------------------------------------
\* The threefry2x32 PRNG implementation
\* ------------------------------------------------------------------------

\* np.uint32(0xFFFFFFFF)
Mask32 == Ones(WordBits)

threefry_seed(seed) ==
  IF seed.shape # <<>> THEN Raise("TypeError")
  ELSE IF seed.dtype \notin IntDtypes THEN Raise("TypeError")
  ELSE
    LET s == seed.data[1]
        k1 == convert_element_type(shift_right_logical(s, 32), seed.dtype, "uint32")
        pd == promote_with_uint32(seed.dtype)
        k2 == convert_element_type(
                bitwise_and(convert_element_type(s, seed.dtype, pd),
                            convert_element_type(Mask32, "uint32", pd)),
                pd, "uint32")
    IN  Arr(<<2>>, "uint32", <<k1, k2>>)

\* threefry2x32_p.bind on scalars: the lowering registered for the platform
threefry2x32_bind(key1, key2, x1, x2) ==
  threefry2x32_lowering(key1, key2, x1, x2, platform = "cpu")

\* a hash of an odd number of counters that keeps the output word of the padding
threefry_2x32_keeps_last(keypair, count) ==
  IF keypair.dtype # "uint32" \/ count.dtype # "uint32" THEN Raise("TypeError")
  ELSE
    LET key1 == keypair.data[1]
        key2 == keypair.data[2]
        size == Len(count.data)
        padded == IF size % 2 = 1 THEN count.data \o <<U32(0)>> ELSE count.data
        h == Len(padded) \div 2
        y == Tup([j \in 1..h |-> threefry2x32_bind(key1, key2, padded[j], padded[h + j])])
    IN  Arr(count.shape, "uint32",
            Tup([j \in 1..h |-> y[j][1]]) \o Tup([j \in 1..h |-> y[j][2]]))

\* threefry_2x32
threefry_2x32(keypair, count) ==
  IF keypair.dtype # "uint32" \/ count.dtype # "uint32" THEN Raise("TypeError")
  ELSE
    LET odd_size == Len(count.data) % 2
        h == (Len(count.data) + odd_size) \div 2
        \* x = split(concatenate([count.ravel(), [0]]), 2) when odd_size
        pad(c) == IF odd_size = 1 THEN c \o <<U32(0)>> ELSE c
        concatenate(y) == Tup([j \in 1..h |-> y[j][1]]) \o Tup([j \in 1..h |-> y[j][2]])
        bind(x) == concatenate(Tup([j \in 1..h |->
                     threefry2x32_bind(keypair.data[1], keypair.data[2], x[j], x[h + j])]))
        \* out[:-1] when odd_size
        unpad(out) == IF odd_size = 1 THEN SubSeq(out, 1, 2 * h - 1) ELSE out
    IN  Arr(count.shape, "uint32", unpad(bind(pad(count.data))))

\* a split that reads the 2 * num words column by column: child i = (w[i], w[i + num])
threefry_split_columns(key, num) ==
  LET counts == iota(num * 2)
      bits == threefry_2x32(key, counts)
  IN  IF IsErr(bits) THEN bits
      ELSE Arr(<<num, 2>>, "uint32",
               Tup([t \in 1..(2 * num) |->
                      bits.data[IF t % 2 = 1 THEN (t + 1) \div 2 ELSE num + (t \div 2)]]))

\* _threefry_split
threefry_split(key, num) ==
  LET reshape(bits) == IF IsErr(bits) THEN bits ELSE Arr(<<num, 2>>, "uint32", bits.data)
  IN  reshape(threefry_2x32(key, iota(num * 2)))

\* a fold_in that hashes the block (data, 0)
threefry_fold_in_data_first(key, data) ==
  IF data.shape # <<>> THEN Raise("AssertionError")
  ELSE threefry_2x32(key, Arr(<<2>>, "uint32",
         <<convert_element_type(data.data[1], data.dtype, "uint32"), U32(0)>>))

\* threefry_fold_in and _threefry_fold_in; data is a scalar array
threefry_fold_in(key, data) ==
  IF data.shape # <<>> THEN Raise("AssertionError")
  ELSE LET d == Arr(<<>>, "uint32",
                    <<convert_element_type(data.data[1], data.dtype, "uint32")>>)
       IN  threefry_2x32(key, threefry_seed(d))

\* _is_threefry_prng_key
is_threefry_prng_key(key) ==
  IF {"shape", "dtype"} \subseteq DOMAIN key
  THEN key.shape = <<2>> /\ key.dtype = "uint32"
  ELSE FALSE

\* TLC's largest integer.  jnp.iinfo(np.uint32).max is 2^32 - 1, which no
\* count this model can hold reaches; a smaller block size is given only
\* where the blocked path itself is examined.
MaxInt == 2147483647

\* the counters of one call of the hash, in place of 2^32 - 1
BlockWords == 3

\* a word sequence from one call on the key, whatever the count
random_words_one_call(key, max_count, uint32max) ==
  threefry_2x32(key, iota(max_count)).data

\* the flat word sequence of threefry_random_bits for max_count words, with
\* uint32max the largest counter of one call
random_words(key, max_count, uint32max) ==
  LET nblocks == max_count \div uint32max
      rem == max_count % uint32max
      \* subkeys[:-1] hash a full block each, subkeys[-1] the remainder
      blocks(subkeys) ==
        Flatten(Tup([b \in 1..(nblocks + 1) |->
                  threefry_2x32(Elem(subkeys, 1, b - 1),
                                iota(IF b <= nblocks THEN uint32max ELSE rem)).data]))
  IN  IF nblocks = 0 THEN threefry_2x32(key, iota(rem)).data
      ELSE blocks(threefry_split(key, nblocks + 1))

\* a combination of consecutive words: (bits[2i] << 32) | bits[2i + 1]
combine64_consecutive(bits) ==
  LET h == Len(bits) \div 2
      hi == Tup([i \in 1..h |-> convert_element_type(bits[2 * i - 1], "uint32", "uint64")])
      lo == Tup([i \in 1..h |-> convert_element_type(bits[2 * i], "uint32", "uint64")])
  IN  Tup([i \in 1..h |-> bor(shift_left(hi[i], 32), lo[i])])

\* bit_width == 64: the two halves of the word sequence, widened, combined
combine64(bits) ==
  LET h == Len(bits) \div 2
      hi == Tup([i \in 1..h |-> convert_element_type(bits[i], "uint32", "uint64")])
      lo == Tup([i \in 1..h |-> convert_element_type(bits[h + i], "uint32", "uint64")])
  IN  Tup([i \in 1..h |-> bor(shift_left(hi[i], 32), lo[i])])

\* a slicing that reads the (32 // bit_width, max_count) grid row by row
slice_words_row_major(bits, bit_width, max_count, size) ==
  LET dtype == UINT_DTYPES(bit_width)
      k == WordBits \div bit_width
      mask == convert_element_type(Ones(bit_width), dtype, "uint32")
      grid == [j \in 0..(k - 1) |->
                [c \in 1..max_count |->
                  bitwise_and(mask, shift_right_logical(bits[c], bit_width * j))]]
      flat == Tup([t \in 1..((max_count * WordBits) \div bit_width) |->
                    grid[(t - 1) \div max_count][((t - 1) % max_count) + 1]])
      conv == Tup([t \in 1..Len(flat) |-> convert_element_type(flat[t], "uint32", dtype)])
  IN  SubSeq(conv, 1, size)

\* bit_width in (8, 16): every word shifted right by each multiple of
\* bit_width and masked, a (32 // bit_width, max_count) grid that
\* lax.reshape(.., dimensions=(1, 0)) reads column by column
slice_words(bits, bit_width, max_count, size) ==
  LET dtype == UINT_DTYPES(bit_width)
      k == WordBits \div bit_width
      mask == convert_element_type(Ones(bit_width), dtype, "uint32")
      grid == [j \in 0..(k - 1) |->
                [c \in 1..max_count |->
                  bitwise_and(mask, shift_right_logical(bits[c], bit_width * j))]]
      flat == Tup([t \in 1..((max_count * WordBits) \div bit_width) |->
                    grid[(t - 1) % k][((t - 1) \div k) + 1]])
      conv == Tup([t \in 1..Len(flat) |-> convert_element_type(flat[t], "uint32", dtype)])
  IN  SubSeq(conv, 1, size)

threefry_random_bits_with(key, bit_width, shape, uint32max) ==
  IF ~is_threefry_prng_key(key) THEN Raise("TypeError")
  ELSE IF bit_width \notin {8, 16, 32, 64} THEN Raise("TypeError")
  ELSE
    LET size == prod(shape)
        q == (bit_width * size) \div WordBits
        r == (bit_width * size) % WordBits
        max_count == IF r > 0 THEN q + 1 ELSE q
        dtype == UINT_DTYPES(bit_width)
        convert(bits) == IF bit_width = 64 THEN combine64(bits)
                         ELSE IF bit_width \in {8, 16}
                              THEN slice_words(bits, bit_width, max_count, size)
                              ELSE bits
        reshape(out) == IF Len(out) # size THEN Raise("TypeError")  \* lax.reshape rejects it
                        ELSE Arr(shape, canonicalize_dtype(dtype), out)
    IN  reshape(convert(random_words(key, max_count, uint32max)))

threefry_random_bits(key, bit_width, shape) ==
  threefry_random_bits_with(key, bit_width, shape, MaxInt)

\* ------------------------------------------------------------------------
\* The RngBitGenerator implementations
\* ------------------------------------------------------------------------

\* Word i of the stream lax.rng_bit_generator draws from a 4-word key.  The
\* generator is an XLA operation, not code of this module: any function of
\* (key, i) stands for it.
RbgWord(key, i) ==
  add(rotate_left(xor(key[(i % 4) + 1], U32(i)), (7 * i + 5) % WordBits),
      key[((i + 1) % 4) + 1])

\* the bits output of lax.rng_bit_generator(key, shape, dtype)
rng_bit_generator(key, shape, dtype) ==
  LET n == prod(shape)
      w == DtypeBits(dtype)
  IN  Arr(shape, dtype,
          Tup([i \in 1..n |->
                 IF w = 64
                 THEN RbgWord(key.data, 2 * i - 1) \o RbgWord(key.data, 2 * i - 2)
                 ELSE SubSeq(RbgWord(key.data, i - 1), 1, w)]))

rbg_seed(seed) ==
  IF seed.shape # <<>> THEN Raise("AssertionError")
  ELSE LET halfkey == threefry_seed(seed)
       IN  IF IsErr(halfkey) THEN halfkey
           ELSE Arr(<<4>>, "uint32", halfkey.data \o halfkey.data)

\* key.reshape(2, 2)[h]
HalfKey(key, h) == Arr(<<2>>, key.dtype, SubSeq(key.data, 2 * h + 1, 2 * h + 2))

\* vmap(_threefry_split, (0, None), 0): the children of one half in a row,
\* then those of the other
rbg_split_out_axis_0(key, num) ==
  LET reshape(halves) ==
        IF IsErr(halves[1]) THEN halves[1]
        ELSE Arr(<<num, 4>>, "uint32", halves[1].data \o halves[2].data)
  IN  reshape([h \in 1..2 |-> threefry_split(HalfKey(key, h - 1), num)])

\* vmap(_threefry_split, (0, None), 1)(key.reshape(2, 2), num).reshape(num, 4)
rbg_split(key, num) ==
  LET reshape(halves) ==
        IF IsErr(halves[1]) THEN halves[1]
        ELSE Arr(<<num, 4>>, "uint32",
                 Flatten([i \in 1..num |->
                            Elem(halves[1], 1, i - 1).data \o Elem(halves[2], 1, i - 1).data]))
  IN  reshape([h \in 1..2 |-> threefry_split(HalfKey(key, h - 1), num)])

\* vmap(_threefry_fold_in, (0, None), 0)(key.reshape(2, 2), data).reshape(4)
rbg_fold_in(key, data) ==
  IF data.shape # <<>> THEN Raise("AssertionError")
  ELSE LET reshape(halves) ==
             IF IsErr(halves[1]) THEN halves[1]
             ELSE Arr(<<4>>, "uint32", halves[1].data \o halves[2].data)
           fold(d) ==
             IF IsErr(d) THEN d
             ELSE reshape([h \in 1..2 |-> threefry_2x32(HalfKey(key, h - 1), d)])
       IN  fold(threefry_seed(data))

\* `not key.shape == (4,) and key.dtype == jnp.dtype('uint32')`
rbg_random_bits(key, bit_width, shape) ==
  IF (~(key.shape = <<4>>)) /\ key.dtype = "uint32" THEN Raise("TypeError")
  ELSE IF bit_width \notin {8, 16, 32, 64} THEN Raise("TypeError")
  ELSE rng_bit_generator(key, shape, UINT_DTYPES(bit_width))

\* the number of generator rows treated as one 'hash'
RbgStride == 10

unsafe_rbg_split(key, num) ==
  LET keys == rng_bit_generator(key, <<RbgStride * num, 4>>, "uint32")
  IN  Arr(<<num, 4>>, "uint32",
          Flatten([i \in 1..num |-> Elem(keys, 1, RbgStride * (i - 1)).data]))

\* key + random_bits[-1] in place of key ^ random_bits[-1]
unsafe_rbg_fold_in_add(key, data) ==
  IF data.shape # <<>> THEN Raise("AssertionError")
  ELSE LET sk == rbg_seed(data)
           random_bits == rng_bit_generator(sk, <<RbgStride, 4>>, "uint32")
           last == Elem(random_bits, 1, RbgStride - 1).data
       IN  IF IsErr(sk) THEN sk
           ELSE Arr(<<4>>, "uint32", Tup([i \in 1..4 |-> add(key.data[i], last[i])]))

unsafe_rbg_fold_in(key, data) ==
  IF data.shape # <<>> THEN Raise("AssertionError")
  ELSE LET sk == rbg_seed(data)
           random_bits == rng_bit_generator(sk, <<RbgStride, 4>>, "uint32")
           last == Elem(random_bits, 1, RbgStride - 1).data
       IN  IF IsErr(sk) THEN sk
           ELSE Arr(<<4>>, "uint32", Tup([i \in 1..4 |-> xor(key.data[i], last[i])]))

\* ------------------------------------------------------------------------
\* PRNGImpl: the key shape, the four operation handles and the tag
\* ------------------------------------------------------------------------

threefry_prng_impl ==
  [key_shape |-> <<2>>, seed |-> "threefry_seed", split |-> "threefry_split",
   random_bits |-> "threefry_random_bits", fold_in |-> "threefry_fold_in",
   tag |-> "fry"]

rbg_prng_impl ==
  [key_shape |-> <<4>>, seed |-> "_rbg_seed", split |-> "_rbg_split",
   random_bits |-> "_rbg_random_bits", fold_in |-> "_rbg_fold_in",
   tag |-> "rbg"]

unsafe_rbg_prng_impl ==
  [key_shape |-> <<4>>, seed |-> "_rbg_seed", split |-> "_unsafe_rbg_split",
   random_bits |-> "_rbg_random_bits", fold_in |-> "_unsafe_rbg_fold_in",
   tag |-> "urbg"]

Impls == {threefry_prng_impl, rbg_prng_impl, unsafe_rbg_prng_impl}

\* PRNGImpl.__hash__: hash(self.tag), with hash() of a str a function of the
\* string, here a table
impl_hash(impl) ==
  CASE impl.tag = "fry" -> 1181
    [] impl.tag = "rbg" -> 2207
    [] impl.tag = "urbg" -> 3571
    [] OTHER -> 5003

\* an equality that compares the tags alone
impl_eq_by_tag(a, b) == a.tag = b.tag

\* PRNGImpl.__eq__: none is defined, a NamedTuple compares as the tuple
\* (key_shape, seed, split, random_bits, fold_in, tag)
impl_eq(a, b) ==
  <<a.key_shape, a.seed, a.split, a.random_bits, a.fold_in, a.tag>> =
  <<b.key_shape, b.seed, b.split, b.random_bits, b.fold_in, b.tag>>

\* impl.seed(seed)
impl_seed(impl, seed) ==
  IF impl.seed = "threefry_seed" THEN threefry_seed(seed) ELSE rbg_seed(seed)

\* impl.split(key, count)
impl_split(impl, key, count) ==
  CASE impl.split = "threefry_split" -> threefry_split(key, count)
    [] impl.split = "_rbg_split" -> rbg_split(key, count)
    [] impl.split = "_unsafe_rbg_split" -> unsafe_rbg_split(key, count)

\* impl.fold_in(key, data)
impl_fold_in(impl, key, data) ==
  CASE impl.fold_in = "threefry_fold_in" -> threefry_fold_in(key, data)
    [] impl.fold_in = "_rbg_fold_in" -> rbg_fold_in(key, data)
    [] impl.fold_in = "_unsafe_rbg_fold_in" -> unsafe_rbg_fold_in(key, data)

\* impl.random_bits(key, bit_width, shape)
impl_random_bits(impl, key, bit_width, shape) ==
  IF impl.random_bits = "threefry_random_bits"
  THEN threefry_random_bits(key, bit_width, shape)
  ELSE rbg_random_bits(key, bit_width, shape)

\* ------------------------------------------------------------------------
\* The vectorization layer.  A function value is a record naming what it
\* calls: f |-> "vmap" maps `inner` over the leading axis.
\* ------------------------------------------------------------------------

\* the first error among a sequence of results, or <<>> when there is none
FirstErr(outs) ==
  IF \E i \in 1..Len(outs) : IsErr(outs[i])
  THEN <<outs[CHOOSE i \in 1..Len(outs) :
                 IsErr(outs[i]) /\ \A j \in 1..(i - 1) : ~IsErr(outs[j])]>>
  ELSE <<>>

\* a stacking that repeats the result of the first element
Stack_first(n, outs) ==
  IF FirstErr(outs) # <<>> THEN FirstErr(outs)[1]
  ELSE Arr(<<n>> \o outs[1].shape, outs[1].dtype,
           Flatten([i \in 1..n |-> outs[1].data]))

\* the per-element results of a map over a leading axis of size n, stacked
Stack(n, outs) ==
  IF FirstErr(outs) # <<>> THEN FirstErr(outs)[1]
  ELSE Arr(<<n>> \o outs[1].shape, outs[1].dtype,
           Flatten([i \in 1..n |-> outs[i].data]))

RECURSIVE iterated_vmap_unary(_, _)
iterated_vmap_unary(n, f) ==
  IF n = 0 THEN f ELSE iterated_vmap_unary(n - 1, [f |-> "vmap", inner |-> f])

squeeze_vmap(f, left) == [f |-> "squeeze_vmap", left |-> left, inner |-> f]

\* the steps of the loop taken from the first pair of sizes to the last
bcast_axes_leading_first(shape1, shape2, i) ==
  [j \in 1..i |->
     IF shape1[j] = shape2[j] THEN [f |-> "vmap2"]
     ELSE IF shape1[j] = 1 \/ shape2[j] = 1
          THEN [f |-> "squeeze", left |-> shape1[j] = 1]
          ELSE Raise("AssertionError")]

RECURSIVE bcast_axes(_, _, _)
\* the loop of iterated_vmap_binary_bcast over reversed(zip(shape1, shape2)),
\* from the pair at position i down to the first
bcast_axes(shape1, shape2, i) ==
  IF i = 0 THEN <<>>
  ELSE LET sz1 == shape1[i]
           sz2 == shape2[i]
           step == IF sz1 = sz2 THEN [f |-> "vmap2"]
                   ELSE IF sz1 = 1 \/ sz2 = 1 THEN [f |-> "squeeze", left |-> sz1 = 1]
                   ELSE Raise("AssertionError")
       IN  <<step>> \o bcast_axes(shape1, shape2, i - 1)

RECURSIVE wrap_axes(_, _)
\* f wrapped by each step of the loop in turn
wrap_axes(steps, f) ==
  IF steps = <<>> THEN f
  ELSE wrap_axes(Tail(steps),
                 IF Head(steps).f = "vmap2" THEN [f |-> "vmap2", inner |-> f]
                 ELSE squeeze_vmap(f, Head(steps).left))

\* a combinator that lifts over one axis only when one of the ranks is 0
iterated_vmap_binary_bcast_one_axis(shape1, shape2, f) ==
  LET ndim1 == Len(shape1)
      ndim2 == Len(shape2)
  IN  IF ndim1 = 0 /\ ndim2 = 0 THEN f
      ELSE IF ndim1 = 0 THEN [f |-> "map_y", n |-> 1, inner |-> f]
      ELSE IF ndim2 = 0 THEN [f |-> "map_x", n |-> 1, inner |-> f]
      ELSE IF ndim1 # ndim2 THEN Raise("AssertionError")
      ELSE LET steps == bcast_axes(shape1, shape2, ndim1)
           IN  IF FirstErr(steps) # <<>> THEN FirstErr(steps)[1]
               ELSE wrap_axes(steps, f)

iterated_vmap_binary_bcast(shape1, shape2, f) ==
  LET ndim1 == Len(shape1)
      ndim2 == Len(shape2)
  IN  IF ndim1 = 0 /\ ndim2 = 0 THEN f
      ELSE IF ndim1 = 0 THEN [f |-> "map_y", n |-> ndim2, inner |-> f]
      ELSE IF ndim2 = 0 THEN [f |-> "map_x", n |-> ndim1, inner |-> f]
      ELSE IF ndim1 # ndim2 THEN Raise("AssertionError")
      ELSE LET steps == bcast_axes(shape1, shape2, ndim1)
           IN  IF FirstErr(steps) # <<>> THEN FirstErr(steps)[1]
               ELSE wrap_axes(steps, f)

RECURSIVE call1(_, _)
RECURSIVE call2(_, _, _)

\* f(x) for a unary function value
call1(f, x) ==
  CASE f.f = "vmap" ->
         Stack(x.shape[1], [i \in 1..x.shape[1] |-> call1(f.inner, Elem(x, 1, i - 1))])
    [] f.f = "seed" -> impl_seed(f.impl, x)
    [] f.f = "split" -> impl_split(f.impl, x, f.count)
    [] f.f = "random_bits" -> impl_random_bits(f.impl, x, f.bit_width, f.shape)
    [] f.f = "with_x" -> call2(f.inner, f.x, x)
    [] f.f = "with_y" -> call2(f.inner, x, f.y)

\* f(x, y) for a binary function value
call2(f, x, y) ==
  CASE f.f = "fold_in" -> impl_fold_in(f.impl, x, y)
    [] f.f = "map_y" ->
         call1(iterated_vmap_unary(f.n, [f |-> "with_x", inner |-> f.inner, x |-> x]), y)
    [] f.f = "map_x" ->
         call1(iterated_vmap_unary(f.n, [f |-> "with_y", inner |-> f.inner, y |-> y]), x)
    [] f.f = "vmap2" ->
         IF x.shape[1] # y.shape[1] THEN Raise("ValueError")
         ELSE Stack(x.shape[1],
                    [i \in 1..x.shape[1] |->
                       call2(f.inner, Elem(x, 1, i - 1), Elem(y, 1, i - 1))])
    [] f.f = "squeeze_vmap" ->
         IF f.left
         THEN IF x.shape[1] # 1 THEN Raise("ValueError")
              ELSE Stack(y.shape[1],
                         [i \in 1..y.shape[1] |->
                            call2(f.inner, Elem(x, 1, 0), Elem(y, 1, i - 1))])
         ELSE IF y.shape[1] # 1 THEN Raise("ValueError")
              ELSE Stack(x.shape[1],
                         [i \in 1..x.shape[1] |->
                            call2(f.inner, Elem(x, 1, i - 1), Elem(y, 1, 0))])

\* ------------------------------------------------------------------------
\* PRNGKeyArray
\* ------------------------------------------------------------------------

\* "ok", or the error _check_prng_key_data raises
check_prng_key_data(impl, key_data) ==
  LET ndim == Len(impl.key_shape)
  IN  IF ~({"shape", "dtype"} \subseteq DOMAIN key_data) THEN "TypeError"
      ELSE IF Len(key_data.shape) < 1 THEN "TypeError"
      ELSE IF SubSeq(key_data.shape, Len(key_data.shape) - ndim + 1,
                     Len(key_data.shape)) # impl.key_shape THEN "TypeError"
      ELSE IF key_data.dtype \notin {"uint32", "float0"} THEN "TypeError"
      ELSE "ok"

\* PRNGKeyArray(impl, key_data); an error value of key_data is passed on
PRNGKeyArray(impl, key_data) ==
  IF IsErr(key_data) THEN key_data
  ELSE IF check_prng_key_data(impl, key_data) # "ok"
       THEN Raise(check_prng_key_data(impl, key_data))
       ELSE [impl |-> impl, base_array |-> key_data]

unsafe_raw_array(keys) == keys.base_array

base_arr_shape_to_keys_shape(impl, base_arr_shape) ==
  SubSeq(base_arr_shape, 1, Len(base_arr_shape) - Len(impl.key_shape))

\* PRNGKeyArray.shape and .ndim
key_shape_of(keys) == base_arr_shape_to_keys_shape(keys.impl, keys.base_array.shape)
key_ndim(keys) == Len(key_shape_of(keys))

is_scalar(keys) == Len(keys.base_array.shape) = Len(keys.impl.key_shape)

\* PRNGKeyArray.__len__
key_len(keys) ==
  IF is_scalar(keys) THEN Raise("TypeError") ELSE keys.base_array.shape[1]

\* an iteration that yields the keys from the last to the first
key_iter_reversed(keys) ==
  IF is_scalar(keys) THEN Raise("TypeError")
  ELSE [i \in 1..keys.base_array.shape[1] |->
          PRNGKeyArray(keys.impl,
                       Elem(keys.base_array, 1, keys.base_array.shape[1] - i))]

\* PRNGKeyArray.__iter__: the keys it yields, in order
key_iter(keys) ==
  IF is_scalar(keys) THEN Raise("TypeError")
  ELSE [i \in 1..keys.base_array.shape[1] |->
          PRNGKeyArray(keys.impl, Elem(keys.base_array, 1, i - 1))]

\* jax._src.util.canonicalize_axis: whether it accepts the axis (it raises
\* ValueError otherwise), and what it returns then
axis_in_range(axis, num_dims) == -num_dims <= axis /\ axis < num_dims
canonicalize_axis(axis, num_dims) == IF axis < 0 THEN axis + num_dims ELSE axis

\* shape with position i (from 1) replaced by n
WithDim(shape, i, n) == [shape EXCEPT ![i] = n]

RECURSIVE SumDim(_, _)
SumDim(arrs, i) ==
  IF arrs = <<>> THEN 0 ELSE Head(arrs).shape[i] + SumDim(Tail(arrs), i)

\* jnp.concatenate(arrs, axis), axis from 0 and within the arrays' rank
jnp_concatenate(arrs, axis) ==
  LET a1 == arrs[1]
      nd == Len(a1.shape)
  IN  IF \E k \in 1..Len(arrs) :
           \/ Len(arrs[k].shape) # nd
           \/ axis >= Len(arrs[k].shape)
           \/ WithDim(arrs[k].shape, axis + 1, 0) # WithDim(a1.shape, axis + 1, 0)
           \/ arrs[k].dtype # a1.dtype
      THEN Raise("ValueError")
      ELSE LET outer == prod(SubSeq(a1.shape, 1, axis))
               inner == prod(SubSeq(a1.shape, axis + 2, nd))
               chunk(k, o) == SubSeq(arrs[k].data,
                                     o * arrs[k].shape[axis + 1] * inner + 1,
                                     (o + 1) * arrs[k].shape[axis + 1] * inner)
           IN  Arr(WithDim(a1.shape, axis + 1, SumDim(arrs, axis + 1)), a1.dtype,
                   Flatten([o \in 1..outer |->
                              Flatten([k \in 1..Len(arrs) |-> chunk(k, o - 1)])]))

\* a concatenate that counts the axis over the dimensions of the backing array
key_concatenate_base_axis(keys, key_arrs, axis, dtype) ==
  IF dtype # "None" THEN Raise("ValueError")
  ELSE IF ~axis_in_range(axis, key_ndim(keys)) THEN Raise("ValueError")
  ELSE LET ax == canonicalize_axis(axis, Len(keys.base_array.shape))
           arrs == <<keys.base_array>> \o
                   [k \in 1..Len(key_arrs) |-> key_arrs[k].base_array]
       IN  PRNGKeyArray(keys.impl, jnp_concatenate(arrs, ax))

\* PRNGKeyArray.concatenate(key_arrs, axis, dtype); dtype "None" when not given
key_concatenate(keys, key_arrs, axis, dtype) ==
  IF dtype # "None" THEN Raise("ValueError")
  ELSE IF ~axis_in_range(axis, key_ndim(keys)) THEN Raise("ValueError")
  ELSE LET ax == canonicalize_axis(axis, key_ndim(keys))
           arrs == <<keys.base_array>> \o
                   [k \in 1..Len(key_arrs) |-> key_arrs[k].base_array]
       IN  PRNGKeyArray(keys.impl, jnp_concatenate(arrs, ax))

RECURSIVE SrcIndex(_, _, _, _)
\* the flat index (from 0) in an array of shape `from` that position t (from
\* 0) of its broadcast to shape `to` reads; the shapes are aligned at the end
SrcIndex(t, from, to, pos) ==
  IF pos = 0 THEN 0
  ELSE LET n == to[Len(to) - Len(from) + pos]
           stride == prod(SubSeq(to, Len(to) - Len(from) + pos + 1, Len(to)))
           c == (t \div stride) % n
           fstride == prod(SubSeq(from, pos + 1, Len(from)))
       IN  (IF from[pos] = 1 THEN 0 ELSE c * fstride)
           + SrcIndex(t, from, to, pos - 1)

\* jnp.broadcast_to(arr, new_shape)
jnp_broadcast_to(arr, new_shape) ==
  LET nf == Len(arr.shape)
      nt == Len(new_shape)
  IN  IF nf > nt \/ \E i \in 1..nf :
                      arr.shape[i] # 1 /\ arr.shape[i] # new_shape[nt - nf + i]
      THEN Raise("ValueError")
      ELSE Arr(new_shape, arr.dtype,
               Tup([t \in 1..prod(new_shape) |->
                      arr.data[SrcIndex(t - 1, arr.shape, new_shape, nf) + 1]]))

\* PRNGKeyArray.broadcast_to(shape), shape a tuple
key_broadcast_to(keys, shape) ==
  PRNGKeyArray(keys.impl,
               jnp_broadcast_to(keys.base_array, shape \o keys.impl.key_shape))

\* the least element of a non-empty set of integers
Min(S) == CHOOSE m \in S : \A n \in S : m <= n

\* shape with a 1 inserted before position i (from 0)
InsertOne(shape, i) == SubSeq(shape, 1, i) \o <<1>> \o SubSeq(shape, i + 1, Len(shape))

RECURSIVE InsertOnes(_, _)
\* for i in sorted(dims): shape.insert(i, 1)
InsertOnes(shape, dims) ==
  IF dims = {} THEN shape
  ELSE InsertOnes(InsertOne(shape, Min(dims)), dims \ {Min(dims)})

Range(seq) == {seq[i] : i \in 1..Len(seq)}

\* lax.expand_dims(arr, dimensions), the dimensions already canonical
lax_expand_dims(arr, dimensions) ==
  LET ndim_out == Len(arr.shape) + Cardinality(Range(dimensions))
  IN  IF \E d \in Range(dimensions) : ~axis_in_range(d, ndim_out)
      THEN Raise("ValueError")
      ELSE Arr(InsertOnes(arr.shape, Range(dimensions)), arr.dtype, arr.data)

\* PRNGKeyArray.expand_dims(dimensions)
key_expand_dims(keys, dimensions) ==
  LET ndim_out == key_ndim(keys) + Cardinality(Range(dimensions))
  IN  IF \E d \in Range(dimensions) : ~axis_in_range(d, ndim_out)
      THEN Raise("ValueError")
      ELSE PRNGKeyArray(keys.impl,
             lax_expand_dims(keys.base_array,
                             [i \in 1..Len(dimensions) |->
                                canonicalize_axis(dimensions[i], ndim_out)]))

\* ------------------------------------------------------------------------
\* The primitives
\* ------------------------------------------------------------------------

\* a Python int, held as its 64-bit two's complement pattern
PyInt(bits64) == [pyint |-> bits64]
IsPyInt(v) == "pyint" \in DOMAIN v

\* jnp.asarray(np.int64(seeds)) for a Python int, jnp.asarray(seeds) otherwise
seeds_asarray(seeds) ==
  IF IsPyInt(seeds)
  THEN Arr(<<>>, canonicalize_dtype("int64"),
           <<convert_element_type(seeds.pyint, "int64", canonicalize_dtype("int64"))>>)
  ELSE seeds

random_seed_impl_base(seeds, impl) ==
  call1(iterated_vmap_unary(Len(seeds.shape), [f |-> "seed", impl |-> impl]), seeds)

random_seed(seeds, impl) ==
  PRNGKeyArray(impl, random_seed_impl_base(seeds_asarray(seeds), impl))

random_split_impl_base(impl, base_arr, keys_ndim, count) ==
  call1(iterated_vmap_unary(keys_ndim, [f |-> "split", impl |-> impl, count |-> count]),
        base_arr)

random_split(keys, count) ==
  PRNGKeyArray(keys.impl,
               random_split_impl_base(keys.impl, unsafe_raw_array(keys),
                                      key_ndim(keys), count))

random_fold_in_impl_base(impl, base_arr, msgs, keys_shape) ==
  LET fold_in == iterated_vmap_binary_bcast(keys_shape, msgs.shape,
                                            [f |-> "fold_in", impl |-> impl])
  IN  IF IsErr(fold_in) THEN fold_in ELSE call2(fold_in, base_arr, msgs)

random_fold_in(keys, msgs) ==
  PRNGKeyArray(keys.impl,
               random_fold_in_impl_base(keys.impl, unsafe_raw_array(keys), msgs,
                                        key_shape_of(keys)))

random_bits_impl_base(impl, base_arr, keys_ndim, bit_width, shape) ==
  call1(iterated_vmap_unary(keys_ndim,
          [f |-> "random_bits", impl |-> impl, bit_width |-> bit_width,
           shape |-> shape]),
        base_arr)

\* random_bits with a positional shape (no named axes)
random_bits(keys, bit_width, shape) ==
  random_bits_impl_base(keys.impl, unsafe_raw_array(keys), key_ndim(keys),
                        bit_width, shape)

random_wrap(base_arr, impl) ==
  IF check_prng_key_data(impl, base_arr) # "ok"
  THEN Raise(check_prng_key_data(impl, base_arr))
  ELSE PRNGKeyArray(impl, base_arr)

IsKey(v) == {"impl", "base_array"} \subseteq DOMAIN v

\* an unwrap that returns the key data as a list of keys: (N, *key_shape)
random_unwrap_as_rows(keys) ==
  IF ~IsKey(keys) THEN Raise("AssertionError")
  ELSE Arr(<<prod(key_shape_of(keys))>> \o keys.impl.key_shape,
           unsafe_raw_array(keys).dtype, unsafe_raw_array(keys).data)

random_unwrap(keys) ==
  IF ~IsKey(keys) THEN Raise("AssertionError") ELSE unsafe_raw_array(keys)

\* ------------------------------------------------------------------------
\* The state: a program holding one key array, on which it calls the
\* primitives and the PRNGKeyArray methods; and one evaluation of the hash
\* ------------------------------------------------------------------------

VARIABLES
  keys,     \* the PRNGKeyArray the program holds, or NoKey
  gen,      \* how many operations derived `keys` from a seeded or wrapped key
  last,     \* the call that returned `keys`: its name, its arguments, the key
            \* array it was made on
  call,     \* the last call, when it returned no key array: its name and its
            \* arguments; None once the program has dropped what it returned
  result,   \* what `call` returned, None when it raised
  error,    \* the exception `call` raised, or "none"
  hargs,    \* the hash evaluation: (key1, key2, x1, x2)
  hpc,      \* the hash evaluation: "idle", "loop" or "done"
  hi,       \* the hash evaluation: the loop index
  hstate,   \* the hash evaluation: (x, ks, rotations)
  limiter,  \* the _LimitInFlightBytes: its _max_bytes and _available_bytes,
            \* and whether one of its assertions has failed
  tasks,    \* the coroutines that use the limiter: where each one is, and the
            \* bytes it asked for
  mgr,      \* per process, its GlobalAsyncCheckpointManager and main thread
  thr,      \* per process, the commit threads it has started
  barrier,  \* per barrier key, the processes waiting at the barrier
  kv,       \* the keys of the key-value store that hold the success value
  ncb       \* per barrier key, the calls of on_commit_callback

cfgVars == <<platform, x64>>
keyVars == <<keys, gen, last, call, result, error>>
hashVars == <<hargs, hpc, hi, hstate>>
limVars == <<limiter, tasks>>
mgrVars == <<mgr, thr, barrier, kv, ncb>>
vars == <<platform, x64, keys, gen, last, call, result, error, hargs, hpc, hi, hstate,
          limiter, tasks, mgr, thr, barrier, kv, ncb>>

NoKey == [nokey |-> TRUE]
None == [none |-> TRUE]

\* the derivations explored from one seeded or wrapped key
MaxGen == 1
\* the largest number of keys in one key array
MaxKeys == 4
\* the derivations explored from one seeded rbg key
MaxRbgGen == 2

NumKeys(k) == prod(key_shape_of(k))

\* the program calls an operation of key array src (NoKey when it is made on
\* none) that returns a key array, r, or raises
KeyOp(op, args, src, r, g) ==
  /\ IF IsErr(r)
     THEN /\ call' = [op |-> op, args |-> args]
          /\ error' = r.err
          /\ UNCHANGED <<keys, gen, last>>
     ELSE /\ call' = None
          /\ error' = "none"
          /\ keys' = r
          /\ gen' = g
          /\ last' = [op |-> op, args |-> args, src |-> src]
  /\ result' = None
  /\ UNCHANGED <<cfgVars, hashVars, limVars, mgrVars>>

\* the program calls an operation that returns something else, or raises
ValueOp(op, args, r) ==
  /\ call' = [op |-> op, args |-> args]
  /\ IF IsErr(r) THEN error' = r.err /\ result' = None
     ELSE error' = "none" /\ result' = r
  /\ UNCHANGED <<keys, gen, last, cfgVars, hashVars, limVars, mgrVars>>

\* the program drops the value or the exception of its last call
Return ==
  /\ call # None
  /\ call' = None /\ result' = None /\ error' = "none"
  /\ UNCHANGED <<keys, gen, last, cfgVars, hashVars, limVars, mgrVars>>

Seed(seeds, impl) ==
  /\ call = None
  /\ KeyOp("seed", <<seeds, impl>>, NoKey, random_seed(seeds, impl), 0)

Wrap(base_arr, impl) ==
  /\ call = None
  /\ KeyOp("wrap", <<base_arr, impl>>, NoKey, random_wrap(base_arr, impl), 0)

\* random_wrap(random_unwrap(keys), impl)
WrapResult(impl) ==
  /\ call # None /\ call.op = "unwrap" /\ error = "none"
  /\ KeyOp("wrap", <<result, impl>>, NoKey, random_wrap(result, impl), gen)

Unwrap ==
  /\ call = None
  /\ ValueOp("unwrap", <<>>, random_unwrap(keys))

\* random_split(keys, count) on a key array fewer than g operations away from
\* its seed
SplitWithin(count, g) ==
  /\ call = None /\ IsKey(keys) /\ gen < g
  /\ NumKeys(keys) * count <= MaxKeys
  /\ KeyOp("split", <<count>>, keys, random_split(keys, count), gen + 1)

Split(count) == SplitWithin(count, MaxGen)

FoldInWithin(msgs, g) ==
  /\ call = None /\ IsKey(keys) /\ gen < g
  /\ LET kept(r) == IF IsErr(r) THEN TRUE ELSE NumKeys(r) <= MaxKeys
     IN  kept(random_fold_in(keys, msgs))
  /\ KeyOp("fold_in", <<msgs>>, keys, random_fold_in(keys, msgs), gen + 1)

FoldIn(msgs) == FoldInWithin(msgs, MaxGen)

RandomBits(bit_width, shape) ==
  /\ call = None /\ IsKey(keys)
  /\ ValueOp("random_bits", <<bit_width, shape>>, random_bits(keys, bit_width, shape))

\* threefry_random_bits on a single key, where one call takes at most
\* BlockWords counters (jnp.iinfo(np.uint32).max of them in the code)
RandomBitsBlocks(bit_width, shape) ==
  /\ call = None /\ IsKey(keys) /\ is_scalar(keys)
  /\ keys.impl = threefry_prng_impl
  /\ ValueOp("random_bits_blocks", <<bit_width, shape>>,
             threefry_random_bits_with(unsafe_raw_array(keys), bit_width, shape,
                                       BlockWords))

\* _rbg_random_bits(key, bit_width, shape) called on an array
RbgRandomBits(key, bit_width, shape) ==
  /\ call = None
  /\ ValueOp("rbg_random_bits", <<key, bit_width, shape>>,
             rbg_random_bits(key, bit_width, shape))

KeyLen ==
  /\ call = None /\ IsKey(keys)
  /\ ValueOp("len", <<>>,
             IF is_scalar(keys) THEN key_len(keys) ELSE [len |-> key_len(keys)])

\* list(keys)[i]
IterateWithin(i, g) ==
  /\ call = None /\ IsKey(keys) /\ gen < g
  /\ i < (IF is_scalar(keys) THEN 1 ELSE keys.base_array.shape[1])
  /\ KeyOp("iter", <<i>>, keys,
           IF is_scalar(keys) THEN key_iter(keys) ELSE key_iter(keys)[i + 1],
           gen + 1)

Iterate(i) == IterateWithin(i, MaxGen)

Concatenate(key_arrs, axis, dtype) ==
  /\ call = None /\ IsKey(keys) /\ gen < MaxGen
  /\ NumKeys(keys) + NumKeys(key_arrs[1]) <= MaxKeys
  /\ KeyOp("concatenate", <<key_arrs, axis, dtype>>, keys,
           key_concatenate(keys, key_arrs, axis, dtype), gen + 1)

BroadcastTo(shape) ==
  /\ call = None /\ IsKey(keys) /\ gen < MaxGen
  /\ prod(shape) <= MaxKeys
  /\ KeyOp("broadcast_to", <<shape>>, keys, key_broadcast_to(keys, shape), gen + 1)

ExpandDims(dimensions) ==
  /\ call = None /\ IsKey(keys) /\ gen < MaxGen
  /\ KeyOp("expand_dims", <<dimensions>>, keys, key_expand_dims(keys, dimensions), gen + 1)

\* ------------------------------------------------------------------------
\* One evaluation of threefry2x32_p, as the platform's lowering runs it: the
\* rolled loop one iteration at a time, the unrolled form in one piece
\* ------------------------------------------------------------------------

\* a == b, hash(a) and hash(b) of two PRNGImpl values
CompareImpls(a, b) ==
  /\ call = None
  /\ ValueOp("impl_eq", <<a, b>>,
             [eq |-> impl_eq(a, b), hash |-> <<impl_hash(a), impl_hash(b)>>])

HashCall(key1, key2, x1, x2) ==
  /\ hpc # "loop"
  /\ hargs' = <<key1, key2, x1, x2>>
  /\ hi' = 0
  /\ LET ks == key_schedule(key1, key2)
     IN  IF platform = "cpu"
         THEN /\ hpc' = "loop"
              /\ hstate' = <<initial_injection(ks, x1, x2), rotate_list(ks), rotations>>
         ELSE /\ hpc' = "done"
              /\ hstate' = <<threefry2x32_unrolled(key1, key2, x1, x2), ks, rotations>>
  /\ UNCHANGED <<cfgVars, keyVars, limVars, mgrVars>>

\* the body of lax.fori_loop(0, 5, rolled_loop_step, ..)
RolledStep ==
  /\ hpc = "loop" /\ hi < NumRounds
  /\ hstate' = rolled_loop_step(hi, hstate)
  /\ hi' = hi + 1
  /\ UNCHANGED <<hargs, hpc, cfgVars, keyVars, limVars, mgrVars>>

LoopExit ==
  /\ hpc = "loop" /\ hi >= NumRounds
  /\ hpc' = "done"
  /\ UNCHANGED <<hargs, hi, hstate, cfgVars, keyVars, limVars, mgrVars>>

\* ------------------------------------------------------------------------
\* _LimitInFlightBytes, used by coroutines of one event loop: a coroutine
\* runs from one await that suspends it to the next, and the condition's lock
\* is free whenever one is suspended
\* ------------------------------------------------------------------------

\* the limit given to the limiter
MaxBytes == 3
\* the coroutines that use it
NumTasks == 3
Tasks == 1..NumTasks

\* _LimitInFlightBytes(num_bytes)
LimitInFlightBytes(num_bytes) ==
  [max_bytes |-> num_bytes, available_bytes |-> num_bytes, failed |-> FALSE]

\* a wait_for_bytes that takes the bytes without waiting for them
wait_for_bytes_no_wait(t, requested_bytes) ==
  /\ limiter' = [limiter EXCEPT
                   !.available_bytes = @ - requested_bytes,
                   !.failed = @ \/ limiter.available_bytes - requested_bytes < 0]
  /\ tasks' = [tasks EXCEPT ![t].pc = "granted",
                             ![t].requested_bytes = requested_bytes]

\* wait_for_bytes from the test of the predicate on: the bytes are taken when
\* _available_bytes > requested_bytes, the coroutine waits on the condition
\* otherwise
wait_for_bytes(t, requested_bytes) ==
  IF limiter.available_bytes > requested_bytes
  THEN /\ limiter' = [limiter EXCEPT
                        !.available_bytes = @ - requested_bytes,
                        !.failed = @ \/ limiter.available_bytes - requested_bytes < 0]
       /\ tasks' = [tasks EXCEPT ![t].pc = "granted",
                                  ![t].requested_bytes = requested_bytes]
  ELSE /\ tasks' = [tasks EXCEPT ![t].pc = "waiting",
                                  ![t].requested_bytes = requested_bytes]
       /\ UNCHANGED limiter

\* a coroutine calls wait_for_bytes(requested_bytes)
WaitForBytes(t, requested_bytes) ==
  /\ tasks[t].pc = "idle"
  /\ wait_for_bytes(t, requested_bytes)
  /\ UNCHANGED <<cfgVars, keyVars, hashVars, mgrVars>>

\* a coroutine woken by notify_all runs again: it tests the predicate again
Wakeup(t) ==
  /\ tasks[t].pc = "notified"
  /\ wait_for_bytes(t, tasks[t].requested_bytes)
  /\ UNCHANGED <<cfgVars, keyVars, hashVars, mgrVars>>

\* release_bytes(requested_bytes) called by coroutine t, which goes on as
\* `then`: the bytes are added, the assertion tested, and notify_all makes
\* every coroutine that waits on the condition runnable
release_bytes(t, requested_bytes, then) ==
  /\ limiter' = [limiter EXCEPT
                   !.available_bytes = @ + requested_bytes,
                   !.failed = @ \/ limiter.available_bytes + requested_bytes
                                     > limiter.max_bytes]
  /\ tasks' = [u \in Tasks |->
                 IF u = t THEN then
                 ELSE IF tasks[u].pc = "waiting" THEN [tasks[u] EXCEPT !.pc = "notified"]
                 ELSE tasks[u]]

\* a coroutine that was given its bytes calls release_bytes with that number
ReleaseBytes(t) ==
  /\ tasks[t].pc = "granted"
  /\ release_bytes(t, tasks[t].requested_bytes,
                   [pc |-> "idle", requested_bytes |-> 0, dtype |-> "None"])
  /\ UNCHANGED <<cfgVars, keyVars, hashVars, mgrVars>>

\* async_deserialize.cb(index) up to `await byte_limiter.wait_for_bytes(..)`:
\* the bytes of the shard are estimated and asked for; dtype is the dtype
\* async_deserialize was given ("None" when not given)
CbStart(t, requested_bytes, dtype) ==
  /\ tasks[t].pc = "idle"
  /\ LET asked(ts) == [ts EXCEPT ![t].dtype = dtype]
     IN  IF limiter.available_bytes > requested_bytes
         THEN /\ limiter' = [limiter EXCEPT
                               !.available_bytes = @ - requested_bytes,
                               !.failed = @ \/ limiter.available_bytes - requested_bytes < 0]
              /\ tasks' = asked([tasks EXCEPT ![t].pc = "granted",
                                               ![t].requested_bytes = requested_bytes])
         ELSE /\ tasks' = asked([tasks EXCEPT ![t].pc = "waiting",
                                               ![t].requested_bytes = requested_bytes])
              /\ UNCHANGED limiter
  /\ UNCHANGED <<cfgVars, keyVars, hashVars, mgrVars>>

\* cb: `await ts.array(out)[..][restricted_domain].write(t[restricted_domain])`
CbWrite(t) ==
  /\ tasks[t].pc = "granted"
  /\ tasks' = [tasks EXCEPT ![t].pc = "written"]
  /\ UNCHANGED <<limiter, cfgVars, keyVars, hashVars, mgrVars>>

\* cb after the write: `if dtype is not None: return out.astype(dtype)`, and
\* otherwise `await byte_limiter.release_bytes(requested_bytes); return out`
CbReturn(t) ==
  /\ tasks[t].pc = "written"
  /\ IF tasks[t].dtype # "None"
     THEN tasks' = [tasks EXCEPT ![t].pc = "returned"] /\ UNCHANGED limiter
     ELSE release_bytes(t, tasks[t].requested_bytes, [tasks[t] EXCEPT !.pc = "returned"])
  /\ UNCHANGED <<cfgVars, keyVars, hashVars, mgrVars>>

\* ------------------------------------------------------------------------
\* GlobalAsyncCheckpointManager, one per process
\* ------------------------------------------------------------------------

\* jax.process_count()
NumProcs == 2
Procs == 0..(NumProcs - 1)

\* AsyncManager.__init__: _thread, _exception and _count are None (<<>> for
\* the thread and the count, <<v>> once they have a value v); with it, the
\* call the main thread makes (op), where it is in it (pc), what its last
\* call raised (raised), the next value of _module_unique_count (next),
\* and how many exceptions the commit threads have stored (stored) and
\* check_for_errors has raised (reraised)
AsyncManager ==
  [thread |-> <<>>, exception |-> "None", count |-> <<>>,
   op |-> "None", pc |-> "idle", raised |-> "None", next |-> 0,
   stored |-> 0, reraised |-> 0]

\* the serialize calls of one process
MaxSerialize == 2
\* the values _module_unique_count yields, which name the barriers and the keys
Counts == 0..(MaxSerialize - 1)

\* the main thread of p calls serialize: it enters wait_until_finished
Serialize(p) ==
  /\ mgr[p].pc = "idle" /\ mgr[p].next < MaxSerialize
  /\ mgr' = [mgr EXCEPT ![p].op = "serialize", ![p].pc = "join", ![p].raised = "None"]
  /\ UNCHANGED <<thr, barrier, kv, ncb, cfgVars, keyVars, hashVars, limVars>>

\* the main thread of p calls wait_until_finished
WaitUntilFinished(p) ==
  /\ mgr[p].pc = "idle"
  /\ mgr' = [mgr EXCEPT ![p].op = "wait_until_finished", ![p].pc = "join",
                         ![p].raised = "None"]
  /\ UNCHANGED <<thr, barrier, kv, ncb, cfgVars, keyVars, hashVars, limVars>>

\* a check_for_errors that raises the exception and keeps it stored
check_for_errors_keeps(m) ==
  IF m.exception # "None"
  THEN [raised |-> m.exception, exception |-> m.exception, reraised |-> m.reraised + 1]
  ELSE [raised |-> "None", exception |-> m.exception, reraised |-> m.reraised]

\* check_for_errors on manager m: the exception it raises ("None" when it
\* returns) and the _exception it leaves
check_for_errors(m) ==
  IF m.exception # "None"
  THEN [raised |-> m.exception, exception |-> "None", reraised |-> m.reraised + 1]
  ELSE [raised |-> "None", exception |-> m.exception, reraised |-> m.reraised]

\* the main thread of p calls check_for_errors
CheckForErrors(p) ==
  /\ mgr[p].pc = "idle"
  /\ mgr' = [mgr EXCEPT ![p].op = "check_for_errors",
                         ![p].raised = check_for_errors(mgr[p]).raised,
                         ![p].exception = check_for_errors(mgr[p]).exception,
                         ![p].reraised = check_for_errors(mgr[p]).reraised]
  /\ UNCHANGED <<thr, barrier, kv, ncb, cfgVars, keyVars, hashVars, limVars>>

\* a wait_until_finished that drops the thread without joining it
Join_no_join(p) ==
  /\ mgr[p].pc = "join"
  /\ mgr' = [mgr EXCEPT ![p].thread = <<>>, ![p].pc = "check"]
  /\ UNCHANGED <<thr, barrier, kv, ncb, cfgVars, keyVars, hashVars, limVars>>

\* wait_until_finished: `if self._thread is not None: self._thread.join();
\* self._thread = None`; join returns once the thread has terminated
Join(p) ==
  /\ mgr[p].pc = "join"
  /\ mgr[p].thread # <<>> => thr[p][mgr[p].thread[1]].pc = "done"
  /\ mgr' = [mgr EXCEPT ![p].thread = <<>>, ![p].pc = "check"]
  /\ UNCHANGED <<thr, barrier, kv, ncb, cfgVars, keyVars, hashVars, limVars>>

\* wait_until_finished: self.check_for_errors()
Check(p) ==
  /\ mgr[p].pc = "check"
  /\ mgr' = [mgr EXCEPT ![p].raised = check_for_errors(mgr[p]).raised,
                         ![p].exception = check_for_errors(mgr[p]).exception,
                         ![p].reraised = check_for_errors(mgr[p]).reraised,
                         ![p].pc = IF check_for_errors(mgr[p]).raised # "None"
                                   THEN "idle" ELSE "get"]
  /\ UNCHANGED <<thr, barrier, kv, ncb, cfgVars, keyVars, hashVars, limVars>>

\* a wait_until_finished that does not wait for the success value
Get_no_wait(p, timeout) ==
  /\ mgr[p].pc = "get"
  /\ mgr' = [mgr EXCEPT ![p].pc = IF mgr[p].op = "serialize" THEN "write" ELSE "idle"]
  /\ UNCHANGED <<thr, barrier, kv, ncb, cfgVars, keyVars, hashVars, limVars>>

\* wait_until_finished: `if self._count is not None:
\* self._client.blocking_key_value_get(..)`, which returns once the key is
\* set and raises when the timeout passes first; then wait_until_finished
\* returns, to its caller or into serialize
Get(p, timeout) ==
  /\ mgr[p].pc = "get"
  /\ IF mgr[p].count = <<>> \/ (~timeout /\ mgr[p].count[1] \in kv)
     THEN mgr' = [mgr EXCEPT ![p].pc = IF mgr[p].op = "serialize" THEN "write"
                                       ELSE "idle"]
     ELSE /\ timeout /\ mgr[p].count[1] \notin kv
          /\ mgr' = [mgr EXCEPT ![p].pc = "idle", ![p].raised = "DeadlineExceeded"]
  /\ UNCHANGED <<thr, barrier, kv, ncb, cfgVars, keyVars, hashVars, limVars>>

\* serialize: asyncio.run(_run_serializer()) and self._add_futures(..)
Write(p) ==
  /\ mgr[p].pc = "write"
  /\ mgr' = [mgr EXCEPT ![p].pc = "start"]
  /\ UNCHANGED <<thr, barrier, kv, ncb, cfgVars, keyVars, hashVars, limVars>>

\* _start_async_commit: the next count, a new thread, started
StartAsyncCommit(p) ==
  /\ mgr[p].pc = "start"
  /\ mgr' = [mgr EXCEPT ![p].count = <<mgr[p].next>>, ![p].next = @ + 1,
                         ![p].thread = <<Len(thr[p]) + 1>>, ![p].pc = "idle"]
  /\ thr' = [thr EXCEPT ![p] = Append(@, [pc |-> "commit", key |-> <<>>, exc |-> "None"])]
  /\ UNCHANGED <<barrier, kv, ncb, cfgVars, keyVars, hashVars, limVars>>

\* the thread ends: with an exception e, stored in _exception, or without
\* ("None"); the thread's record keeps e
ThreadEnds(p, k, e) ==
  /\ thr' = [thr EXCEPT ![p][k].pc = "done", ![p][k].exc = e]
  /\ mgr' = IF e = "None" THEN mgr
            ELSE [mgr EXCEPT ![p].exception = e, ![p].stored = @ + 1]

\* _thread_func: `for future in self._commit_futures: future.result()`, then
\* the key of the barrier from self._count and the call of wait_at_barrier;
\* a commit future may raise, and a barrier that has timed out fails every
\* later call
CommitFutures(p, k, ok) ==
  /\ k \in 1..Len(thr[p]) /\ thr[p][k].pc = "commit"
  /\ IF ~ok THEN ThreadEnds(p, k, "CommitError") /\ UNCHANGED barrier
     ELSE IF barrier[mgr[p].count[1]].failed
          THEN ThreadEnds(p, k, "DeadlineExceeded") /\ UNCHANGED barrier
          ELSE /\ thr' = [thr EXCEPT ![p][k] = [pc |-> "barrier", key |-> mgr[p].count,
                                                      exc |-> "None"]]
               /\ barrier' = [barrier EXCEPT ![mgr[p].count[1]].arrived = @ \cup {p}]
               /\ UNCHANGED mgr
  /\ UNCHANGED <<kv, ncb, cfgVars, keyVars, hashVars, limVars>>

\* a barrier that lets a process through before every process has arrived
BarrierPass_alone(p, k) ==
  /\ k \in 1..Len(thr[p]) /\ thr[p][k].pc = "barrier"
  /\ ~barrier[thr[p][k].key[1]].failed
  /\ IF p = 0 THEN thr' = [thr EXCEPT ![p][k].pc = "callback"] /\ UNCHANGED mgr
     ELSE ThreadEnds(p, k, "None")
  /\ UNCHANGED <<barrier, kv, ncb, cfgVars, keyVars, hashVars, limVars>>

\* wait_at_barrier returns: every process is at the barrier; process 0 goes
\* on to the callback
BarrierPass(p, k) ==
  /\ k \in 1..Len(thr[p]) /\ thr[p][k].pc = "barrier"
  /\ barrier[thr[p][k].key[1]].arrived = Procs /\ ~barrier[thr[p][k].key[1]].failed
  /\ IF p = 0 THEN thr' = [thr EXCEPT ![p][k].pc = "callback"] /\ UNCHANGED mgr
     ELSE ThreadEnds(p, k, "None")
  /\ UNCHANGED <<barrier, kv, ncb, cfgVars, keyVars, hashVars, limVars>>

\* wait_at_barrier raises: the timeout has passed, or the barrier has failed
BarrierTimeout(p, k) ==
  /\ k \in 1..Len(thr[p]) /\ thr[p][k].pc = "barrier"
  /\ barrier[thr[p][k].key[1]].arrived # Procs \/ barrier[thr[p][k].key[1]].failed
  /\ barrier' = [barrier EXCEPT ![thr[p][k].key[1]].failed = TRUE]
  /\ ThreadEnds(p, k, "DeadlineExceeded")
  /\ UNCHANGED <<kv, ncb, cfgVars, keyVars, hashVars, limVars>>

\* process 0: self._on_commit_callback(), which may raise
Callback(p, k, ok) ==
  /\ k \in 1..Len(thr[p]) /\ thr[p][k].pc = "callback"
  /\ ncb' = [ncb EXCEPT ![thr[p][k].key[1]] = @ + 1]
  /\ IF ok THEN thr' = [thr EXCEPT ![p][k].pc = "set"] /\ UNCHANGED mgr
     ELSE ThreadEnds(p, k, "CallbackError")
  /\ UNCHANGED <<barrier, kv, cfgVars, keyVars, hashVars, limVars>>

\* process 0: self._client.key_value_set(key_for_barrier, _CHECKPOINT_SUCCESS)
KeyValueSet(p, k) ==
  /\ k \in 1..Len(thr[p]) /\ thr[p][k].pc = "set"
  /\ kv' = kv \cup {thr[p][k].key[1]}
  /\ ThreadEnds(p, k, "None")
  /\ UNCHANGED <<barrier, ncb, cfgVars, keyVars, hashVars, limVars>>

\* ------------------------------------------------------------------------
\* Inputs
\* ------------------------------------------------------------------------

\* -n as a two's complement number of w bits (n > 0)
Neg(n, w) == Tup([i \in 1..w |-> 1 - ToBits(n - 1, w)[i]])

Scalar(dtype, v) == Arr(<<>>, dtype, <<v>>)

HashWords == {Zeros(WordBits), Ones(WordBits), Word(4660, 22136)}

\* 0, 2^32 + 7 and -1 as Python ints, [7, -5] as an int32 array
FrySeeds ==
  {PyInt(Zeros(64)), PyInt(U32(7) \o U32(1)), PyInt(Ones(64)),
   Arr(<<2>>, "int32", <<U32(7), Neg(5, 32)>>)}

FryMsgs ==
  {Scalar("int32", U32(7)), Scalar("int32", Neg(5, 32)),
   Arr(<<2>>, "uint32", <<U32(7), U32(8)>>)}

BitWidths == {8, 16, 32, 64}

\* (bit_width, shape) for random_bits
FryBitsArgs ==
  (BitWidths \X {<<>>}) \cup
  {<<8, <<5>>>>, <<16, <<3>>>>, <<32, <<3>>>>, <<64, <<2, 2>>>>}

\* 7 as a Python int, [0] and [7, -5] as int32 arrays, 1.5 as a float
Seeds ==
  {PyInt(ToBits(7, 64)), Arr(<<1>>, "int32", <<U32(0)>>),
   Arr(<<2>>, "int32", <<U32(7), Neg(5, 32)>>),
   Scalar("float32", U32(1069547520))}

\* (base_arr, impl): arrays that are key data of impl and arrays that are not
WrapArgs ==
  { <<Arr(<<2>>, "uint32", <<U32(1), U32(2)>>), threefry_prng_impl>>,
    <<Arr(<<2, 2>>, "uint32", <<U32(1), U32(2), U32(3), U32(4)>>), threefry_prng_impl>>,
    <<Arr(<<2, 1, 2>>, "uint32", <<U32(1), U32(2), U32(3), U32(4)>>), threefry_prng_impl>>,
    <<Arr(<<4>>, "uint32", <<U32(1), U32(2), U32(3), U32(4)>>), rbg_prng_impl>>,
    <<Arr(<<1, 4>>, "uint32", <<U32(1), U32(2), U32(3), U32(4)>>), unsafe_rbg_prng_impl>>,
    <<Arr(<<2>>, "float0", <<<<>>, <<>>>>), threefry_prng_impl>>,
    <<Arr(<<3>>, "uint32", <<U32(1), U32(2), U32(3)>>), threefry_prng_impl>>,
    <<Scalar("uint32", U32(1)), threefry_prng_impl>>,
    <<Arr(<<2>>, "int32", <<U32(1), U32(2)>>), threefry_prng_impl>>,
    <<[pylist |-> <<1, 2>>], threefry_prng_impl>> }

Msgs == {Scalar("int32", U32(7)), Arr(<<1, 2>>, "int32", <<U32(7), U32(8)>>)}

\* 7 and -5 as int32 scalars
RbgMsgs == {Scalar("int32", U32(7)), Scalar("int32", Neg(5, 32))}

\* arrays handed to _rbg_random_bits: a key, and arrays of another dtype, of
\* another shape, and of both
RbgBitsKeys ==
  {Arr(<<4>>, "uint32", <<U32(1), U32(2), U32(3), U32(4)>>),
   Arr(<<4>>, "int32", <<U32(1), U32(2), U32(3), U32(4)>>),
   Arr(<<2>>, "uint32", <<U32(1), U32(2)>>),
   Arr(<<2, 4>>, "uint32", <<U32(1), U32(2), U32(3), U32(4), U32(5), U32(6), U32(7), U32(8)>>),
   Arr(<<2, 2>>, "int32", <<U32(1), U32(2), U32(3), U32(4)>>)}

\* 2^32 + 7 as a Python int, [7, -5] as an int32 array
RbgSeeds == {PyInt(U32(7) \o U32(1)), Arr(<<2>>, "int32", <<U32(7), Neg(5, 32)>>)}

\* data of ranks 0, 1 and 2 for fold_in: 7, [7], [7, 8], [7, 8, 9], [[7, 8]]
\* and [[7], [8]]
FoldMsgs ==
  {Scalar("int32", U32(7)), Arr(<<1>>, "int32", <<U32(7)>>),
   Arr(<<2>>, "int32", <<U32(7), U32(8)>>),
   Arr(<<3>>, "int32", <<U32(7), U32(8), U32(9)>>),
   Arr(<<1, 2>>, "int32", <<U32(7), U32(8)>>),
   Arr(<<2, 1>>, "int32", <<U32(7), U32(8)>>)}

\* (key_arrs, axis, dtype) for k.concatenate
ConcatArgs(k) ==
  ({<<k>>} \cup {<<random_seed(Arr(<<1>>, "int32", <<U32(0)>>), impl)>> : impl \in Impls})
    \X {0, -1} \X {"None"}
  \cup {<< <<k>>, 1, "None">>, << <<k>>, 0, "uint32">>}

BroadcastShapes == {<<2>>, <<1, 2>>}
ExpandDimensions == {<<0>>, <<-1>>, <<0, 1>>, <<2>>}
BitsArgs == {<<32, <<2>>>>, <<24, <<>>>>}

\* PRNGImpl values: the three of the module, and others that share a tag,
\* the key shape or the operations with them ('?' is the default tag)
ImplSamples ==
  Impls \cup
  { [threefry_prng_impl EXCEPT !.tag = "?"],
    [rbg_prng_impl EXCEPT !.tag = "?"],
    [unsafe_rbg_prng_impl EXCEPT !.tag = "rbg"],
    [threefry_prng_impl EXCEPT !.key_shape = <<4>>],
    [rbg_prng_impl EXCEPT !.tag = "urbg"] }

\* (bit_width, shape) for random_bits by blocks: fewer words than a block,
\* as many, and more
BlocksArgs ==
  {<<32, <<2>>>>, <<32, <<3>>>>, <<32, <<4>>>>, <<32, <<7>>>>, <<64, <<2>>>>,
   <<64, <<3>>>>}

\* the largest count of a split
MaxSplit == 2

\* ------------------------------------------------------------------------
\* The specifications
\* ------------------------------------------------------------------------

\* (platform, jax_enable_x64)
Configs == {<<"cpu", FALSE>>, <<"tpu", TRUE>>}

Init ==
  /\ \E c \in Configs : platform = c[1] /\ x64 = c[2]
  /\ keys = NoKey
  /\ gen = 0
  /\ last = [op |-> "init", args |-> <<>>, src |-> NoKey]
  /\ call = None
  /\ result = None
  /\ error = "none"
  /\ hargs = <<>>
  /\ hpc = "idle"
  /\ hi = 0
  /\ hstate = <<>>
  /\ limiter = LimitInFlightBytes(MaxBytes)
  /\ tasks = [t \in Tasks |-> [pc |-> "idle", requested_bytes |-> 0, dtype |-> "None"]]
  /\ mgr = [p \in Procs |-> AsyncManager]
  /\ thr = [p \in Procs |-> <<>>]
  /\ barrier = [c \in Counts |-> [arrived |-> {}, failed |-> FALSE]]
  /\ kv = {}
  /\ ncb = [c \in Counts |-> 0]

\* the key array operations of every implementation
Next ==
  \/ \E seeds \in Seeds, impl \in Impls : Seed(seeds, impl)
  \/ \E a \in WrapArgs : Wrap(a[1], a[2])
  \/ \E impl \in Impls : WrapResult(impl)
  \/ Unwrap
  \/ \E count \in 1..MaxSplit : Split(count)
  \/ \E msgs \in Msgs : FoldIn(msgs)
  \/ \E a \in BitsArgs : RandomBits(a[1], a[2])
  \/ KeyLen
  \/ \E i \in 0..(MaxKeys - 1) : Iterate(i)
  \/ \E a \in ConcatArgs(keys) : Concatenate(a[1], a[2], a[3])
  \/ \E shape \in BroadcastShapes : BroadcastTo(shape)
  \/ \E dimensions \in ExpandDimensions : ExpandDims(dimensions)
  \/ Return

Spec == Init /\ [][Next]_vars

\* the threefry2x32 implementation on its own, on more inputs
NextFry ==
  \/ \E seeds \in FrySeeds : Seed(seeds, threefry_prng_impl)
  \/ \E count \in 1..MaxSplit : Split(count)
  \/ \E msgs \in FryMsgs : FoldIn(msgs)
  \/ \E a \in FryBitsArgs : RandomBits(a[1], a[2])
  \/ Return

SpecFry == Init /\ [][NextFry]_vars

\* the hash on its own
NextHash ==
  \/ \E key1 \in HashWords, key2 \in HashWords, x1 \in HashWords, x2 \in HashWords :
       HashCall(key1, key2, x1, x2)
  \/ RolledStep
  \/ LoopExit

SpecHash == Init /\ [][NextHash]_vars

\* threefry_random_bits with blocks of BlockWords counters
NextBlocks ==
  \/ \E seeds \in FrySeeds : Seed(seeds, threefry_prng_impl)
  \/ \E count \in 1..MaxSplit : Split(count)
  \/ \E msgs \in FryMsgs : FoldIn(msgs)
  \/ \E a \in BlocksArgs : RandomBitsBlocks(a[1], a[2])
  \/ Return

SpecBlocks == Init /\ [][NextBlocks]_vars

\* fold_in of data of every rank into key arrays of every rank
NextFold ==
  \/ \E seeds \in Seeds, impl \in Impls : Seed(seeds, impl)
  \/ \E a \in WrapArgs : Wrap(a[1], a[2])
  \/ \E msgs \in FoldMsgs : FoldIn(msgs)
  \/ Return

SpecFold == Init /\ [][NextFold]_vars

\* the two RngBitGenerator implementations on their own: keys further from
\* their seed, and _rbg_random_bits called on arrays that are no keys
NextRbg ==
  \/ \E seeds \in RbgSeeds, impl \in {rbg_prng_impl, unsafe_rbg_prng_impl} : Seed(seeds, impl)
  \/ \E count \in 1..MaxSplit : SplitWithin(count, MaxRbgGen)
  \/ \E i \in 0..(MaxKeys - 1) : IterateWithin(i, MaxRbgGen)
  \/ \E msgs \in RbgMsgs : FoldInWithin(msgs, MaxRbgGen)
  \/ \E key \in RbgBitsKeys, a \in BitsArgs : RbgRandomBits(key, a[1], a[2])
  \/ Return

SpecRbg == Init /\ [][NextRbg]_vars

\* PRNGImpl values compared and hashed
NextImpl ==
  \/ \E a \in ImplSamples, b \in ImplSamples : CompareImpls(a, b)
  \/ Return

SpecImpl == Init /\ [][NextImpl]_vars

\* the coroutines of one event loop on one limiter
NextLimiter ==
  \/ \E t \in Tasks, requested_bytes \in 0..MaxBytes : WaitForBytes(t, requested_bytes)
  \/ \E t \in Tasks : Wakeup(t)
  \/ \E t \in Tasks : ReleaseBytes(t)

SpecLimiter == Init /\ [][NextLimiter]_vars

\* the event loop runs every coroutine that can run: one that notify_all has
\* woken tests its predicate again, and one that holds bytes releases them
SpecLimiterFair ==
  /\ SpecLimiter
  /\ \A t \in Tasks : WF_vars(Wakeup(t)) /\ WF_vars(ReleaseBytes(t))

\* the shard callbacks of one run_deserialization, each run once, on its
\* limiter
NextDeserialize ==
  \/ \E t \in Tasks, requested_bytes \in 0..MaxBytes, dtype \in {"None", "bfloat16"} :
       CbStart(t, requested_bytes, dtype)
  \/ \E t \in Tasks : Wakeup(t)
  \/ \E t \in Tasks : CbWrite(t)
  \/ \E t \in Tasks : CbReturn(t)

SpecDeserialize == Init /\ [][NextDeserialize]_vars

\* the main threads and the commit threads of the processes
NextManager ==
  \/ \E p \in Procs : Serialize(p)
  \/ \E p \in Procs : WaitUntilFinished(p)
  \/ \E p \in Procs : CheckForErrors(p)
  \/ \E p \in Procs : Join(p)
  \/ \E p \in Procs : Check(p)
  \/ \E p \in Procs, timeout \in BOOLEAN : Get(p, timeout)
  \/ \E p \in Procs : Write(p)
  \/ \E p \in Procs : StartAsyncCommit(p)
  \/ \E p \in Procs, k \in 1..MaxSerialize, ok \in BOOLEAN : CommitFutures(p, k, ok)
  \/ \E p \in Procs, k \in 1..MaxSerialize : BarrierPass(p, k)
  \/ \E p \in Procs, k \in 1..MaxSerialize : BarrierTimeout(p, k)
  \/ \E p \in Procs, k \in 1..MaxSerialize, ok \in BOOLEAN : Callback(p, k, ok)
  \/ \E p \in Procs, k \in 1..MaxSerialize : KeyValueSet(p, k)

SpecManager == Init /\ [][NextManager]_vars

\* ------------------------------------------------------------------------
\* Properties
\* ------------------------------------------------------------------------

\* C1: whenever an evaluation of the hash has finished, the pair it returned
\* is the pair the other lowering returns on the same (key1, key2, x1, x2):
\* the rolled loop (run on cpu, one iteration per step) agrees with the
\* unrolled form, and the unrolled form (run elsewhere) with the rolled loop
RolledEqualsUnrolled ==
  hpc = "done" =>
    hstate[1] = threefry2x32_lowering(hargs[1], hargs[2], hargs[3], hargs[4],
                                      platform # "cpu")

\* the rolled loop has run its five iterations on a key and a block of
\* distinct words
RolledLoopFinished ==
  /\ hpc = "done" /\ platform = "cpu" /\ hi = NumRounds
  /\ hargs = <<Ones(WordBits), Word(4660, 22136), Zeros(WordBits), Ones(WordBits)>>

\* C2: the hash of the block (0, 0) under the key (0, 0) is the pair of the
\* published Threefry-2x32 test vector, (0x6b200159, 0x99ba4efe), on either
\* lowering, and threefry_2x32((0, 0), [0, 0]) returns it
KnownAnswer ==
  LET reference == <<Word(27424, 345), Word(39354, 20222)>>
      zeros == Arr(<<2>>, "uint32", <<U32(0), U32(0)>>)
  IN  (hpc = "done" /\ hargs = <<U32(0), U32(0), U32(0), U32(0)>>) =>
        /\ hstate[1] = reference
        /\ threefry_2x32(zeros, zeros) = Arr(<<2>>, "uint32", reference)

\* the hash of the block (0, 0) under the key (0, 0) has been evaluated
ZeroBlockHashed ==
  hpc = "done" /\ hargs = <<U32(0), U32(0), U32(0), U32(0)>>

\* C3: a key array made by seeding the threefry implementation holds, for
\* every seed s handed to threefry_seed, the two words (high, low): high is
\* bits 32..63 of s with zeros above the width of s (the logical shift right
\* by 32, truncated), so 0 for a 32-bit s, and low is bits 0..31 of s.  The
\* backing array is this function of the seed alone, so seeding twice with
\* the same seed gives the same array.
SeedHighLow ==
  (last.op = "seed" /\ last.args[2] = threefry_prng_impl) =>
    LET s == seeds_asarray(last.args[1])
        ext(v) == v \o Zeros(64 - Len(v))
    IN  /\ keys.base_array.shape = s.shape \o <<2>>
        /\ keys.base_array.dtype = "uint32"
        /\ \A i \in 1..prod(s.shape) :
             /\ keys.base_array.data[2 * i - 1] = SubSeq(ext(s.data[i]), 33, 64)
             /\ keys.base_array.data[2 * i] = SubSeq(ext(s.data[i]), 1, 32)
             /\ Len(s.data[i]) = 32 => keys.base_array.data[2 * i - 1] = Zeros(32)

\* the 64-bit seed 2^32 + 7 has been seeded into the key (1, 7)
SeededWide ==
  /\ last.op = "seed" /\ x64
  /\ last.args[1] = PyInt(U32(7) \o U32(1))
  /\ keys.base_array.data = <<U32(1), U32(7)>>

\* C4: a key folded with a scalar is, key by key, the hash under the source
\* key of the block (0, data), and differs from the fold of the same key with
\* every other 32-bit value tried (7, 8, 0, -5)
FoldInHashesData ==
  (last.op = "fold_in" /\ last.args[1].shape = <<>>) =>
    LET src == last.src.base_array
        d == last.args[1].data[1]
        row(a, i) == SubSeq(a.data, 2 * i - 1, 2 * i)
    IN  /\ keys.base_array.shape = src.shape
        /\ \A i \in 1..NumKeys(last.src) :
             /\ row(keys.base_array, i) =
                  threefry2x32_bind(row(src, i)[1], row(src, i)[2], Zeros(32), d)
             /\ \A m \in {U32(7), U32(8), U32(0), Neg(5, 32)} :
                  m # d =>
                    threefry_fold_in(Arr(<<2>>, "uint32", row(src, i)),
                                     Scalar("uint32", m)).data
                      # row(keys.base_array, i)

\* 7 has been folded into the key seeded with 0
FoldedSeven ==
  /\ last.op = "fold_in"
  /\ last.src = random_seed(PyInt(Zeros(64)), threefry_prng_impl)
  /\ last.args[1] = Scalar("int32", U32(7))

\* C5: split(keys, n) holds, for every source key, n children: with w the 2n
\* words of hashing the counters 0..2n-1 under the key, counter j < n in one
\* block with counter j + n and w = (first outputs, second outputs), child i
\* is (w[2i], w[2i+1]); the key array has shape (*B, n)
SplitCounterMode ==
  last.op = "split" =>
    LET src == last.src.base_array
        n == last.args[1]
        B == key_shape_of(last.src)
        row(a, i) == SubSeq(a.data, 2 * i - 1, 2 * i)
        y(k, j) == threefry2x32_bind(k[1], k[2], U32(j), U32(j + n))
        w(k) == Tup([j \in 1..n |-> y(k, j - 1)[1]]) \o
                Tup([j \in 1..n |-> y(k, j - 1)[2]])
    IN  /\ key_shape_of(keys) = B \o <<n>>
        /\ keys.base_array.shape = B \o <<n, 2>>
        /\ \A b \in 1..prod(B) :
             LET wb == w(row(src, b))
             IN  \A i \in 0..(n - 1) :
                   row(keys.base_array, (b - 1) * n + i + 1)
                     = <<wb[2 * i + 1], wb[2 * i + 2]>>

\* an array of two keys has been split in two
SplitBatch ==
  /\ last.op = "split" /\ last.args[1] = 2
  /\ key_shape_of(last.src) = <<2>>
  /\ key_shape_of(keys) = <<2, 2>>

\* C6, as the claim states it: every 64-bit output is made of two consecutive
\* words of the flat word sequence w of its key, out[i] = (w[2i] << 32) | w[2i+1]
Bits64ConsecutiveWords ==
  (call # None /\ call.op = "random_bits" /\ error = "none" /\ call.args[1] = 64) =>
    LET size == prod(call.args[2])
        w(b) == threefry_2x32(Arr(<<2>>, "uint32", SubSeq(keys.base_array.data, 2 * b - 1, 2 * b)),
                              iota(2 * size)).data
    IN  \A b \in 1..NumKeys(keys) :
          LET wb == w(b)
          IN  \A i \in 1..size :
                result.data[(b - 1) * size + i] = wb[2 * i] \o wb[2 * i - 1]

\* C6, amended: every 64-bit output is made of a word of the first half of w
\* (high) and the word at the same place of the second half (low),
\* out[i] = (w[i] << 32) | w[i + size]; where the 64-bit type is not enabled
\* the output is the 32-bit word w[i + size]
Bits64HalvesCombined ==
  (call # None /\ call.op = "random_bits" /\ error = "none" /\ call.args[1] = 64) =>
    LET size == prod(call.args[2])
        w(b) == threefry_2x32(Arr(<<2>>, "uint32", SubSeq(keys.base_array.data, 2 * b - 1, 2 * b)),
                              iota(2 * size)).data
    IN  \A b \in 1..NumKeys(keys) :
          LET wb == w(b)
          IN  \A i \in 1..size :
                result.data[(b - 1) * size + i] =
                  IF x64 THEN wb[size + i] \o wb[i] ELSE wb[size + i]

\* four 64-bit values per key have been drawn
Bits64Drawn ==
  /\ call # None /\ call.op = "random_bits" /\ error = "none"
  /\ call.args = <<64, <<2, 2>>>> /\ x64
  /\ Len(result.data) = 4 * NumKeys(keys)

\* C7: for bit_width 8 or 16, k = 32 / bit_width, and w the sequence of
\* ceil(bit_width * size / 32) words of its key, output t < size is bits
\* bit_width * (t mod k) .. bit_width * (t mod k) + bit_width - 1 of w[t div k]
SmallWidthSlices ==
  (call # None /\ call.op = "random_bits" /\ error = "none" /\ call.args[1] \in {8, 16}) =>
    LET bw == call.args[1]
        size == prod(call.args[2])
        k == 32 \div bw
        max_count == (bw * size + 31) \div 32
        w(b) == threefry_2x32(Arr(<<2>>, "uint32", SubSeq(keys.base_array.data, 2 * b - 1, 2 * b)),
                              iota(max_count)).data
    IN  \A b \in 1..NumKeys(keys) :
          LET wb == w(b)
          IN  \A t \in 0..(size - 1) :
                result.data[(b - 1) * size + t + 1] =
                  SubSeq(wb[(t \div k) + 1], bw * (t % k) + 1, bw * (t % k) + bw)

\* five 8-bit values per key, of two words, have been drawn
BytesDrawn ==
  /\ call # None /\ call.op = "random_bits" /\ error = "none"
  /\ call.args = <<8, <<5>>>>
  /\ Len(result.data) = 5 * NumKeys(keys)

WrapUnwrapRoundTrip ==
  /\ []((call # None /\ call.op = "unwrap" /\ error = "none" /\ last.op = "wrap") =>
          result = last.args[1])
  /\ [][(/\ call # None /\ call.op = "unwrap" /\ error = "none"
          /\ \/ call' # None /\ call'.op = "wrap" /\ call'.args = <<result, keys.impl>>
             \/ call' = None /\ last'.op = "wrap" /\ last'.args = <<result, keys.impl>>) =>
           (keys' = keys /\ error' = "none")]_vars

\* a key array derived from a wrapped (2, 2) array has been unwrapped, what
\* came back wrapped again, and the new key array unwrapped
RewrappedAndUnwrapped ==
  /\ call # None /\ call.op = "unwrap" /\ error = "none"
  /\ last.op = "wrap" /\ gen = 1
  /\ result = last.args[1]
  /\ Len(result.shape) >= 2

\* C10, as the claim states it: every key array that exists has a backing
\* array whose trailing dimensions are its impl's key_shape and whose dtype is
\* uint32 or float0; a key array returned by an operation on key arrays has
\* the impl of each of them; and random_wrap of data that is not key data
\* (no shape and dtype, rank < 1, another trailing shape, another dtype)
\* raises TypeError and returns no key array
KeyInvariant ==
  LET valid(impl, d) ==
        /\ {"shape", "dtype"} \subseteq DOMAIN d
        /\ Len(d.shape) >= 1
        /\ Len(d.shape) >= Len(impl.key_shape)
        /\ SubSeq(d.shape, Len(d.shape) - Len(impl.key_shape) + 1, Len(d.shape))
             = impl.key_shape
        /\ d.dtype \in {"uint32", "float0"}
      derived == {"split", "fold_in", "iter", "concatenate", "broadcast_to", "expand_dims"}
  IN  /\ IsKey(keys) => valid(keys.impl, keys.base_array)
      /\ last.op = "seed" => keys.impl = last.args[2]
      /\ last.op = "wrap" => (keys.impl = last.args[2] /\ valid(last.args[2], last.args[1]))
      /\ last.op \in derived => keys.impl = last.src.impl
      /\ last.op = "concatenate" =>
           \A k \in 1..Len(last.args[1]) : keys.impl = last.args[1][k].impl
      /\ (call # None /\ call.op = "wrap") =>
           (error = "TypeError" /\ ~valid(call.args[2], call.args[1]))

\* C10, without the impl of the other arrays of a concatenation: the rest of
\* the key invariant
KeyInvariantOfSelf ==
  LET valid(impl, d) ==
        /\ {"shape", "dtype"} \subseteq DOMAIN d
        /\ Len(d.shape) >= 1
        /\ Len(d.shape) >= Len(impl.key_shape)
        /\ SubSeq(d.shape, Len(d.shape) - Len(impl.key_shape) + 1, Len(d.shape))
             = impl.key_shape
        /\ d.dtype \in {"uint32", "float0"}
      derived == {"split", "fold_in", "iter", "concatenate", "broadcast_to", "expand_dims"}
  IN  /\ IsKey(keys) => valid(keys.impl, keys.base_array)
      /\ last.op = "seed" => keys.impl = last.args[2]
      /\ last.op = "wrap" => (keys.impl = last.args[2] /\ valid(last.args[2], last.args[1]))
      /\ last.op \in derived => keys.impl = last.src.impl
      /\ (call # None /\ call.op = "wrap") =>
           (error = "TypeError" /\ ~valid(call.args[2], call.args[1]))

\* a key array of one impl has been concatenated with a key array of another
ConcatenatedOtherImpl ==
  /\ last.op = "concatenate" /\ IsKey(keys)
  /\ \E k \in 1..Len(last.args[1]) : last.args[1][k].impl # last.src.impl

\* C11: a key array is scalar exactly when it has no batch dimension; len()
\* and iteration of a scalar key array raise TypeError; len() of a key array
\* of batch shape (n, *rest) returns n, and its iteration yields n key arrays,
\* the i-th of the same impl and backed by the part of the backing array at
\* leading index i
LenAndIteration ==
  LET n(k) == k.base_array.shape[1]
      rest(k) == Tail(k.base_array.shape)
      part(k, i) == SubSeq(k.base_array.data, i * prod(rest(k)) + 1,
                           (i + 1) * prod(rest(k)))
  IN  /\ IsKey(keys) => (is_scalar(keys) <=> key_shape_of(keys) = <<>>)
      /\ (call # None /\ call.op = "len") =>
           IF key_shape_of(keys) = <<>> THEN error = "TypeError"
           ELSE error = "none" /\ result = [len |-> Head(key_shape_of(keys))]
      /\ (call # None /\ call.op = "iter") =>
           (error = "TypeError" /\ key_shape_of(keys) = <<>>)
      /\ last.op = "iter" =>
           /\ key_shape_of(last.src) # <<>>
           /\ Len(key_iter(last.src)) = Head(key_shape_of(last.src))
           /\ keys.impl = last.src.impl
           /\ keys.base_array.shape = rest(last.src)
           /\ keys.base_array.dtype = last.src.base_array.dtype
           /\ keys.base_array.data = part(last.src, last.args[1])

\* the second key of a key array of batch shape (2, 1) has been yielded
SecondKeyYielded ==
  /\ last.op = "iter" /\ last.args[1] = 1
  /\ key_shape_of(last.src) = <<2, 1>>
  /\ key_shape_of(keys) = <<1>>

\* C12, as the claim states it: two PRNGImpl values compare equal exactly
\* when their tags are equal, and hash equal whenever their tags are equal
ImplEqualByTag ==
  (call # None /\ call.op = "impl_eq") =>
    LET a == call.args[1]
        b == call.args[2]
    IN  /\ result.eq <=> (a.tag = b.tag)
        /\ a.tag = b.tag => result.hash[1] = result.hash[2]

\* C12, amended: two PRNGImpl values compare equal exactly when their
\* key_shape, their four operation handles and their tags are all equal; they
\* hash equal whenever their tags are equal; so values of different tags are
\* distinct, identical operations or not
ImplEqualByContent ==
  (call # None /\ call.op = "impl_eq") =>
    LET a == call.args[1]
        b == call.args[2]
    IN  /\ result.eq <=> (/\ a.key_shape = b.key_shape /\ a.seed = b.seed
                          /\ a.split = b.split /\ a.random_bits = b.random_bits
                          /\ a.fold_in = b.fold_in /\ a.tag = b.tag)
        /\ a.tag = b.tag => result.hash[1] = result.hash[2]
        /\ a.tag # b.tag => ~result.eq

\* two values of the same tag and different operations have been compared
SameTagCompared ==
  /\ call # None /\ call.op = "impl_eq"
  /\ call.args[1] = rbg_prng_impl
  /\ call.args[2] = [unsafe_rbg_prng_impl EXCEPT !.tag = "rbg"]
  /\ ~result.eq /\ result.hash[1] = result.hash[2]

\* C13: random_seed, random_split and random_bits on an array of batch shape B
\* return, at every batch index b, what the implementation's operation
\* returns on the single seed or key at index b: the result has shape
\* (*B, *shape of one result) and its part at b is that result; they raise
\* only what the operation raises on one of the elements
BatchingKeepsResults ==
  LET one(arr, inner, b) ==
        Arr(inner, arr.dtype,
            SubSeq(arr.data, (b - 1) * prod(inner) + 1, b * prod(inner)))
      agrees(out, B, rs) ==
        /\ \A b \in 1..Len(rs) : ~IsErr(rs[b])
        /\ out.shape = B \o rs[1].shape
        /\ \A b \in 1..Len(rs) : one(out, rs[1].shape, b) = rs[b]
      raises(err, rs) == \E b \in 1..Len(rs) : IsErr(rs[b]) /\ rs[b].err = err
      seeded(seeds, impl) ==
        [b \in 1..prod(seeds.shape) |-> impl_seed(impl, one(seeds, <<>>, b))]
      splits(k, count) ==
        [b \in 1..NumKeys(k) |->
           impl_split(k.impl, one(k.base_array, k.impl.key_shape, b), count)]
      bits(k, bit_width, shape) ==
        [b \in 1..NumKeys(k) |->
           impl_random_bits(k.impl, one(k.base_array, k.impl.key_shape, b),
                            bit_width, shape)]
  IN  /\ (call = None /\ last.op = "seed") =>
           agrees(keys.base_array, seeds_asarray(last.args[1]).shape,
                  seeded(seeds_asarray(last.args[1]), last.args[2]))
      /\ (call # None /\ call.op = "seed") =>
           raises(error, seeded(seeds_asarray(call.args[1]), call.args[2]))
      /\ (call = None /\ last.op = "split") =>
           agrees(keys.base_array, key_shape_of(last.src),
                  splits(last.src, last.args[1]))
      /\ (call # None /\ call.op = "split") =>
           raises(error, splits(keys, call.args[1]))
      /\ (call # None /\ call.op = "random_bits") =>
           IF error = "none"
           THEN agrees(result, key_shape_of(keys),
                       bits(keys, call.args[1], call.args[2]))
           ELSE raises(error, bits(keys, call.args[1], call.args[2]))

\* a key array of batch shape (2, 1) has been split in two
BatchSplit ==
  /\ last.op = "split" /\ last.args[1] = 2
  /\ key_shape_of(last.src) = <<2, 1>>
  /\ key_shape_of(keys) = <<2, 1, 2>>

\* C15: in every state 0 <= _available_bytes <= _max_bytes, the bytes given
\* and not yet released are _max_bytes - _available_bytes, so never more than
\* _max_bytes, and no assertion of wait_for_bytes or release_bytes has failed
InFlightBytesBounded ==
  LET held(t) == IF tasks[t].pc = "granted" THEN tasks[t].requested_bytes ELSE 0
      total[T \in SUBSET Tasks] ==
        IF T = {} THEN 0
        ELSE LET t == CHOOSE u \in T : TRUE IN held(t) + total[T \ {t}]
  IN  /\ 0 <= limiter.available_bytes
      /\ limiter.available_bytes <= limiter.max_bytes
      /\ total[Tasks] = limiter.max_bytes - limiter.available_bytes
      /\ total[Tasks] <= limiter.max_bytes
      /\ ~limiter.failed

\* two coroutines hold a byte each and a third waits for bytes that are not
\* there
LimiterContended ==
  /\ MaxBytes >= 3
  /\ limiter.available_bytes = limiter.max_bytes - 2
  /\ \E t \in Tasks, u \in Tasks, v \in Tasks :
       /\ t # u
       /\ tasks[t].pc = "granted" /\ tasks[t].requested_bytes = 1
       /\ tasks[u].pc = "granted" /\ tasks[u].requested_bytes = 1
       /\ tasks[v].pc = "waiting" /\ tasks[v].requested_bytes >= 1

\* C14: on every process at most one commit thread is alive, and while
\* serialize writes and starts its commit thread every commit thread the
\* process started before has terminated
OneCommitThread ==
  \A p \in Procs :
    LET alive == {k \in 1..Len(thr[p]) : thr[p][k].pc # "done"}
    IN  /\ Cardinality(alive) <= 1
        /\ mgr[p].pc \in {"write", "start"} => alive = {}
        /\ alive # {} => mgr[p].thread = <<CHOOSE k \in alive : TRUE>>

\* a process is writing its second checkpoint: the commit thread of the first
\* has been joined
SecondSerializeWrites ==
  \E p \in Procs :
    /\ mgr[p].op = "serialize" /\ mgr[p].pc = "write"
    /\ Len(thr[p]) = 1 /\ thr[p][1].pc = "done"
    /\ mgr[p].thread = <<>>


\* the block after n groups of four rounds, when the words of the schedule
\* (key1, key2, key1 XOR key2 XOR 0x1BD11BDA) injected into x0 after the
\* groups are those at the places order (counted from 0), the word injected
\* into x1 is the one after it plus the number of the group (from 1), group
\* r (from 0) rotates by rotations[r mod 2], and the block starts as
\* (x1 + ks0, x2 + ks1)
ScheduledBlock(a, n, order) ==
  LET ks(j) == IF j % 3 = 0 THEN a[1]
               ELSE IF j % 3 = 1 THEN a[2]
               ELSE xor(xor(a[1], a[2]), Word(7121, 7130))
      rots(r) == IF r % 2 = 0 THEN <<13, 15, 26, 6>> ELSE <<17, 29, 16, 24>>
      RECURSIVE after(_)
      injected(x, r) ==
        <<add(x[1], ks(order[r])), add(add(x[2], ks(order[r] + 1)), U32(r))>>
      group(x, r) == After(x, injected(apply_rounds(x, rots(r - 1)), r))
      after(r) ==
        IF r = 0 THEN <<add(a[3], ks(0)), add(a[4], ks(1))>>
        ELSE group(after(r - 1), r)
  IN  after(n)

\* the groups of rounds the evaluation has been through
GroupsDone == IF platform = "cpu" THEN hi ELSE NumRounds

\* the claim as stated: the words injected into x0 after groups 1..5 are
\* ks0, ks1, ks2, ks0, ks1
KeyScheduleFromKs0 ==
  hpc \in {"loop", "done"} =>
    hstate[1] = ScheduledBlock(hargs, GroupsDone, <<0, 1, 2, 0, 1>>)

\* C16: after the initial injection x0 = x1_in + ks0, x1 = x2_in + ks1, with
\* ks2 = key1 XOR key2 XOR 0x1BD11BDA, group r (from 0) of four rounds uses
\* rotations[r mod 2], [13,15,26,6] first, and after groups 1..5 the word
\* injected into x0 is ks1, ks2, ks0, ks1, ks2 and the word injected into x1
\* the following word of the schedule plus the number of the group: at every
\* iteration of the rolled loop, and in the result of either lowering
KeyScheduleFromKs1 ==
  hpc \in {"loop", "done"} =>
    hstate[1] = ScheduledBlock(hargs, GroupsDone, <<1, 2, 0, 1, 2>>)

\* the rolled loop has made its third injection, on a key of distinct words
ThirdInjectionDone ==
  /\ hpc = "loop" /\ hi = 3
  /\ hargs = <<Ones(WordBits), Word(4660, 22136), Zeros(WordBits), Ones(WordBits)>>

\* the words of random_bits by blocks on the key of the state, for max_count
\* words, when the key is split into nblocks + 1 keys if blocked holds and
\* used as it is otherwise: word t is word t mod BlockWords of the call on
\* key t div BlockWords of the split, which runs over BlockWords counters
\* (over the remainder for the last key)
BlockedWords(max_count, blocked) ==
  LET nblocks == max_count \div BlockWords
      rem == max_count % BlockWords
      key == unsafe_raw_array(keys)
      subkey(b) == Arr(<<2>>, "uint32",
                       SubSeq(threefry_split(key, nblocks + 1).data, 2 * b + 1, 2 * b + 2))
      block(b) == threefry_2x32(subkey(b), iota(IF b < nblocks THEN BlockWords ELSE rem)).data
  IN  IF blocked
      THEN [t \in 1..max_count |-> block((t - 1) \div BlockWords)[((t - 1) % BlockWords) + 1]]
      ELSE [t \in 1..max_count |-> threefry_2x32(key, iota(max_count)).data[t]]

\* a call of random_bits by blocks has returned the words ws, put together
\* for its bit width
BlocksReturned(ws) ==
  result.data = IF call.args[1] = 64 THEN combine64(Tup(ws)) ELSE Tup(ws)

\* the words of the last call: ceil(bit_width * size / 32)
BlocksMaxCount == (call.args[1] * prod(call.args[2]) + 31) \div 32

\* the claim as stated: blocks exactly when max_count exceeds the largest
\* counter value
BlocksWhenExceeds ==
  (call # None /\ call.op = "random_bits_blocks" /\ error = "none") =>
    BlocksReturned(BlockedWords(BlocksMaxCount, BlocksMaxCount > BlockWords))

\* C17: with M the largest counter value of one call, threefry_random_bits
\* uses blocks exactly when max_count = ceil(bit_width * size / 32) is at
\* least M: then split(key, nblocks + 1), nblocks = max_count div M, gives
\* nblocks keys that generate M words each and a last key that generates the
\* max_count mod M words left (none when M divides max_count), in order; for
\* max_count below M there is one call on counters 0..max_count-1 under the
\* key itself
BlocksWhenAtLeast ==
  (call # None /\ call.op = "random_bits_blocks" /\ error = "none") =>
    BlocksReturned(BlockedWords(BlocksMaxCount, BlocksMaxCount >= BlockWords))

\* seven words were drawn: two or one full blocks and a remainder
TwoBlocksDrawn ==
  /\ call # None /\ call.op = "random_bits_blocks" /\ error = "none"
  /\ call.args = <<32, <<7>>>> /\ Len(result.data) = 7
  /\ BlocksMaxCount \div BlockWords >= 1 /\ BlocksMaxCount % BlockWords >= 1

\* C18: a concatenate of key arrays along an axis in [-ndim, ndim) of the
\* batch dimensions, negative axes counted from the last batch axis, returns
\* a key array whose batch shape is that of the inputs with the axis summed
\* and whose trailing dimensions are impl.key_shape, and holds the words of
\* every key of every input, in place; it raises only for a dtype, an axis
\* out of that range, or inputs whose backing arrays do not fit together
\* (another dtype, another rank, or another size off the axis)
ConcatenateAlongBatchAxis ==
  LET batch(k) == SubSeq(k.base_array.shape, 1,
                         Len(k.base_array.shape) - Len(k.impl.key_shape))
      ax(src, axis) == (IF axis < 0 THEN axis + Len(batch(src)) ELSE axis) + 1
      inrange(src, axis) == -Len(batch(src)) <= axis /\ axis < Len(batch(src))
      width(k) == prod(k.impl.key_shape)
      words(k, i) == SubSeq(k.base_array.data, i * width(k) + 1, (i + 1) * width(k))
      fit(ins, a) ==
        \A k \in 2..Len(ins) :
          /\ ins[k].base_array.dtype = ins[1].base_array.dtype
          /\ Len(ins[k].base_array.shape) = Len(ins[1].base_array.shape)
          /\ \A d \in 1..Len(ins[1].base_array.shape) :
               d # a => ins[k].base_array.shape[d] = ins[1].base_array.shape[d]
      RECURSIVE along(_, _, _)
      along(ins, a, n) == IF n = 0 THEN 0 ELSE batch(ins[n])[a] + along(ins, a, n - 1)
      joined(ins, a) ==
        LET B == batch(ins[1])
            inner == prod(SubSeq(B, a + 1, Len(B)))
            total == along(ins, a, Len(ins))
        IN  /\ batch(keys) = [B EXCEPT ![a] = total]
            /\ SubSeq(keys.base_array.shape, Len(B) + 1, Len(keys.base_array.shape))
                 = keys.impl.key_shape
            /\ \A k \in 1..Len(ins) :
                 \A i \in 0..(prod(batch(ins[k])) - 1) :
                   words(ins[k], i) =
                     words(keys, (i \div (inner * batch(ins[k])[a])) * (total * inner)
                                 + (along(ins, a, k - 1) + ((i \div inner) % batch(ins[k])[a])) * inner
                                 + (i % inner))
  IN  /\ (call = None /\ last.op = "concatenate") =>
           /\ last.args[3] = "None" /\ inrange(last.src, last.args[2])
           /\ joined(<<last.src>> \o last.args[1], ax(last.src, last.args[2]))
      /\ (call # None /\ call.op = "concatenate") =>
           \/ call.args[3] # "None"
           \/ ~inrange(keys, call.args[2])
           \/ ~fit(<<keys>> \o call.args[1], ax(keys, call.args[2]))

\* a key array of two batch dimensions has been concatenated along axis -1,
\* its last batch axis
ConcatenatedLastBatchAxis ==
  /\ call = None /\ last.op = "concatenate" /\ last.args[2] = -1
  /\ Len(last.src.base_array.shape) = Len(last.src.impl.key_shape) + 2
  /\ Len(keys.base_array.shape) = Len(last.src.base_array.shape)

\* shape with ones in front, up to rank n
Padded(shape, n) == [d \in 1..(n - Len(shape)) |-> 1] \o shape

\* the shapes, aligned at the end, have at every axis equal sizes or a size 1
Broadcastable(shape1, shape2) ==
  LET n == IF Len(shape1) > Len(shape2) THEN Len(shape1) ELSE Len(shape2)
  IN  \A d \in 1..n :
        \/ Padded(shape1, n)[d] = Padded(shape2, n)[d]
        \/ Padded(shape1, n)[d] = 1
        \/ Padded(shape2, n)[d] = 1

\* out is the fold of the data msgs into the key array k with the shapes
\* aligned at the end: its batch shape is the broadcast of the two shapes and
\* its key at index i is fold_in of the key of k and the element of msgs at
\* i, with the coordinate 0 on the axes where that operand has size 1
FoldedByBroadcast(k, msgs, out) ==
  LET B == key_shape_of(k)
      n == IF Len(B) > Len(msgs.shape) THEN Len(B) ELSE Len(msgs.shape)
      p1 == Padded(B, n)
      p2 == Padded(msgs.shape, n)
      to == [d \in 1..n |-> IF p1[d] = 1 THEN p2[d] ELSE p1[d]]
      coord(t, d) == (t \div prod(SubSeq(to, d + 1, n))) % to[d]
      RECURSIVE at(_, _, _)
      at(t, p, d) ==
        IF d = 0 THEN 0
        ELSE (IF p[d] = 1 THEN 0 ELSE coord(t, d)) * prod(SubSeq(p, d + 1, n))
             + at(t, p, d - 1)
      w == prod(k.impl.key_shape)
      words(a, i) == SubSeq(a.base_array.data, i * w + 1, (i + 1) * w)
  IN  /\ out.impl = k.impl
      /\ key_shape_of(out) = to
      /\ \A t \in 0..(prod(to) - 1) :
           words(out, t) =
             impl_fold_in(k.impl, Arr(k.impl.key_shape, "uint32", words(k, at(t, p1, n))),
                          Arr(<<>>, msgs.dtype, <<msgs.data[at(t, p2, n) + 1]>>)).data

\* C20: fold_in of data into a key array of the same rank, where at every
\* axis the sizes are equal or one of them is 1, returns the key array of the
\* broadcast shape whose key at index i is fold_in(key[i1], data[i2]), i1 and
\* i2 being i with 0 on the axes where the operand has size 1; where an axis
\* has two different sizes above 1 it raises AssertionError and returns
\* nothing (the keys are uint32 words, which fold_in itself accepts)
EqualRankBroadcast ==
  /\ (call = None /\ last.op = "fold_in"
        /\ Len(key_shape_of(last.src)) = Len(last.args[1].shape)) =>
       /\ Broadcastable(key_shape_of(last.src), last.args[1].shape)
       /\ FoldedByBroadcast(last.src, last.args[1], keys)
  /\ (call # None /\ call.op = "fold_in" /\ keys.base_array.dtype = "uint32"
        /\ Len(key_shape_of(keys)) = Len(call.args[1].shape)) =>
       /\ error = "AssertionError"
       /\ ~Broadcastable(key_shape_of(keys), call.args[1].shape)

\* data of shape (1, 2) has been folded into a key array of shape (2, 1)
FoldedTwoByTwo ==
  /\ call = None /\ last.op = "fold_in"
  /\ key_shape_of(last.src) = <<2, 1>> /\ last.args[1].shape = <<1, 2>>
  /\ key_shape_of(keys) = <<2, 2>>

\* the claim as stated: data and keys of different ranks are always folded,
\* by broadcasting, and the call never fails
EveryRankMismatchHandled ==
  /\ (call = None /\ last.op = "fold_in"
        /\ Len(key_shape_of(last.src)) # Len(last.args[1].shape)) =>
       FoldedByBroadcast(last.src, last.args[1], keys)
  /\ ~(call # None /\ call.op = "fold_in" /\ keys.base_array.dtype = "uint32"
         /\ Len(key_shape_of(keys)) # Len(call.args[1].shape))

\* C19: fold_in of data into a key array of another rank succeeds exactly
\* when one of the two ranks is 0: the operation is then lifted over every
\* axis of the other operand and the result is the broadcast one; when both
\* ranks are above 0 and differ it raises AssertionError (the keys are
\* uint32 words, which fold_in itself accepts)
RankZeroMismatchHandled ==
  /\ (call = None /\ last.op = "fold_in"
        /\ Len(key_shape_of(last.src)) # Len(last.args[1].shape)) =>
       /\ Len(key_shape_of(last.src)) = 0 \/ Len(last.args[1].shape) = 0
       /\ FoldedByBroadcast(last.src, last.args[1], keys)
  /\ (call # None /\ call.op = "fold_in" /\ keys.base_array.dtype = "uint32"
        /\ Len(key_shape_of(keys)) # Len(call.args[1].shape)) =>
       /\ Len(key_shape_of(keys)) > 0 /\ Len(call.args[1].shape) > 0
       /\ error = "AssertionError"

\* data of shape (2, 1) has been folded into a single key
FoldedIntoOneKey ==
  /\ call = None /\ last.op = "fold_in"
  /\ key_shape_of(last.src) = <<>> /\ last.args[1].shape = <<2, 1>>
  /\ key_shape_of(keys) = <<2, 1>>

\* C21: for the serialize call of count c (its commit thread is the thread
\* c + 1 of each process) the callback is called at most once and by process
\* 0 only; when it has been called every process has finished its commit
\* futures without an exception and has arrived at the barrier of c; the
\* success value is in the store only when the callback has been called once
\* and the thread of process 0 has ended without an exception; and when the
\* commit thread of any process has ended with an exception of a commit
\* future or of the barrier, or the barrier has timed out, the callback has
\* not been called and the success value has not been written
CallbackOnceAfterAllCommitted ==
  /\ \A p \in Procs : \A k \in 1..Len(thr[p]) :
       thr[p][k].pc \in {"callback", "set"} => p = 0
  /\ \A c \in Counts :
       /\ ncb[c] <= 1
       /\ ncb[c] > 0 =>
            /\ barrier[c].arrived = Procs
            /\ \A p \in Procs :
                 /\ Len(thr[p]) > c
                 /\ thr[p][c + 1].pc # "commit"
                 /\ thr[p][c + 1].key = <<c>>
                 /\ thr[p][c + 1].exc \notin {"CommitError", "DeadlineExceeded"}
            /\ thr[0][c + 1].pc \in {"set", "done"}
       /\ c \in kv =>
            /\ ncb[c] = 1
            /\ thr[0][c + 1].pc = "done" /\ thr[0][c + 1].exc = "None"
       /\ (\/ barrier[c].failed
           \/ \E p \in Procs :
                /\ Len(thr[p]) > c
                /\ thr[p][c + 1].exc \in {"CommitError", "DeadlineExceeded"}) =>
            ncb[c] = 0 /\ c \notin kv

\* the first checkpoint is committed: both commit threads have ended, the
\* callback has been called and the success value written
FirstCheckpointCommitted ==
  /\ ncb[0] = 1 /\ 0 \in kv
  /\ \A p \in Procs : Len(thr[p]) >= 1 /\ thr[p][1].pc = "done"

\* C22: once a process has started a commit thread, wherever
\* wait_until_finished has returned without an exception on it (to its
\* caller, or into serialize, which then writes and starts the next thread)
\* the commit thread of its latest count has terminated without an
\* exception, and process 0 has called the callback of that count and
\* written the success value under its key
ReturnsAfterCommitted ==
  \A p \in Procs :
    (/\ mgr[p].count # <<>>
     /\ \/ mgr[p].op = "wait_until_finished" /\ mgr[p].pc = "idle" /\ mgr[p].raised = "None"
        \/ mgr[p].op = "serialize" /\ mgr[p].pc \in {"write", "start"}) =>
      /\ thr[p][mgr[p].count[1] + 1].pc = "done"
      /\ thr[p][mgr[p].count[1] + 1].exc = "None"
      /\ mgr[p].count[1] \in kv
      /\ ncb[mgr[p].count[1]] = 1
      /\ thr[0][mgr[p].count[1] + 1].pc = "done"

\* wait_until_finished has returned on process 1 after the first checkpoint
WaitReturnedOnOther ==
  /\ mgr[1].op = "wait_until_finished" /\ mgr[1].pc = "idle" /\ mgr[1].raised = "None"
  /\ mgr[1].count = <<0>>

\* C23: on every process the exceptions the commit threads have stored are
\* those check_for_errors has raised so far, and the one still stored if
\* there is one: none is overwritten or dropped, none is raised twice; and a
\* check_for_errors, called by itself or within wait_until_finished, raises
\* the stored exception and clears it, and raises nothing when none is
\* stored; a call of check_for_errors can always take its step, whatever the
\* commit threads are doing
ExceptionRaisedOnce ==
  /\ [](\A p \in Procs :
          /\ mgr[p].stored
                = mgr[p].reraised + (IF mgr[p].exception # "None" THEN 1 ELSE 0)
          /\ mgr[p].pc = "idle" => ENABLED CheckForErrors(p))
  /\ [][\A p \in Procs :
          (/\ mgr'[p] # mgr[p] /\ thr' = thr
           /\ \/ mgr[p].pc = "idle" /\ mgr'[p].op = "check_for_errors"
              \/ mgr[p].pc = "check") =>
            /\ mgr'[p].raised = mgr[p].exception
            /\ mgr'[p].exception = "None"
            /\ mgr'[p].reraised = mgr[p].reraised + (IF mgr[p].exception # "None" THEN 1 ELSE 0)]_vars

\* a process has been given the exception of its commit thread once, and a
\* later check_for_errors has raised nothing
RaisedThenNothing ==
  \E p \in Procs :
    /\ mgr[p].stored = 1 /\ mgr[p].reraised = 1
    /\ mgr[p].op = "check_for_errors" /\ mgr[p].raised = "None"

\* the bytes of the callbacks that have returned a cast array
CastBytes ==
  LET kept(t) == IF tasks[t].pc = "returned" /\ tasks[t].dtype # "None"
                 THEN tasks[t].requested_bytes ELSE 0
      total[T \in SUBSET Tasks] ==
        IF T = {} THEN 0
        ELSE LET t == CHOOSE u \in T : TRUE IN kept(t) + total[T \ {t}]
  IN  total[Tasks]

\* C24: once every shard callback has returned, the limiter has all its
\* bytes again, each callback having released what it was given
AllBytesReleased ==
  (\A t \in Tasks : tasks[t].pc = "returned") =>
    limiter.available_bytes = limiter.max_bytes

\* once every shard callback has returned, the limiter has all its bytes but
\* those given to the callbacks that cast their array
BytesReleasedUnlessCast ==
  (\A t \in Tasks : tasks[t].pc = "returned") =>
    limiter.available_bytes = limiter.max_bytes - CastBytes

\* every callback has returned, one of them with a cast of a shard of one byte
AllReturnedOneCast ==
  /\ \A t \in Tasks : tasks[t].pc = "returned"
  /\ CastBytes = 1

\* C25: every coroutine that waits in wait_for_bytes for a number of bytes
\* within the limit is given them in the end
EveryWaiterGranted ==
  \A t \in Tasks :
    (tasks[t].pc = "waiting" /\ tasks[t].requested_bytes <= limiter.max_bytes)
      ~> (tasks[t].pc = "granted")

\* no coroutine is ever given max_bytes bytes: the predicate asks for more
\* bytes available than requested
MaxBytesNeverGranted ==
  \A t \in Tasks :
    tasks[t].pc = "granted" => tasks[t].requested_bytes < limiter.max_bytes

\* a coroutine waits for max_bytes bytes while the limiter has them all
WaitsForAllBytes ==
  \E t \in Tasks :
    /\ tasks[t].pc = "waiting" /\ tasks[t].requested_bytes = limiter.max_bytes
    /\ limiter.available_bytes = limiter.max_bytes


\* ------------------------------------------------------------------------
\* The RngBitGenerator implementations on their own
\* ------------------------------------------------------------------------

\* C26: every rbg key reached from _rbg_seed by _rbg_split (any child taken)
\* and _rbg_fold_in (any data) has its two halves identical: words 0-1 are
\* words 2-3
RbgHalvesIdentical ==
  (IsKey(keys) /\ keys.impl = rbg_prng_impl) =>
    \A n \in 0..(NumKeys(keys) - 1) :
      SubSeq(keys.base_array.data, 4 * n + 1, 4 * n + 2)
        = SubSeq(keys.base_array.data, 4 * n + 3, 4 * n + 4)

\* data has been folded into the two children of a split rbg key
RbgFoldInAfterSplit ==
  /\ IsKey(keys) /\ keys.impl = rbg_prng_impl /\ call = None
  /\ gen = 2 /\ last.op = "fold_in" /\ NumKeys(keys) = 2
  /\ last.src = random_split(random_seed(PyInt(U32(7) \o U32(1)), rbg_prng_impl), 2)

\* random_bits[-1] of a 10-row run of the generator seeded from data d
FoldInMask(d) ==
  Elem(rng_bit_generator(rbg_seed(d), <<RbgStride, 4>>, "uint32"), 1, RbgStride - 1).data

\* C27: for unsafe_rbg, fold_in(key, d) is key XOR a 4-word mask that depends
\* on d alone, so fold-ins commute and folding the same data in twice gives
\* the key back
UnsafeFoldInIsXorMask ==
  (IsKey(keys) /\ keys.impl = unsafe_rbg_prng_impl /\ call = None) =>
    \A a \in RbgMsgs :
      LET folded(fa, m) ==
            /\ \A b \in RbgMsgs \ {a} :
                 random_fold_in(fa, b) = random_fold_in(random_fold_in(keys, b), a)
            /\ random_fold_in(fa, a) = keys
            /\ fa.base_array.shape = keys.base_array.shape
            /\ \A i \in 1..(4 * NumKeys(keys)) :
                 fa.base_array.data[i] = xor(keys.base_array.data[i], m[((i - 1) % 4) + 1])
      IN  folded(random_fold_in(keys, a), FoldInMask(a))

\* an unsafe_rbg key array of two keys has had 7 and then -5 folded in
UnsafeFoldedInTwice ==
  /\ IsKey(keys) /\ keys.impl = unsafe_rbg_prng_impl /\ call = None
  /\ NumKeys(keys) = 2 /\ gen >= 2
  /\ last.op = "fold_in" /\ last.args[1] = Scalar("int32", Neg(5, 32))
  /\ \E k \in {random_seed(Arr(<<2>>, "int32", <<U32(7), Neg(5, 32)>>), unsafe_rbg_prng_impl)} :
       last.src = random_fold_in(k, Scalar("int32", U32(7)))

\* C28: _rbg_random_bits raises TypeError for every invalid key, one whose
\* shape is not (4,) or whose dtype is not uint32, in any combination
RbgRejectsInvalidKeys ==
  (call # None /\ call.op = "rbg_random_bits") =>
    ((call.args[1].shape # <<4>> \/ call.args[1].dtype # "uint32")
       => error = "TypeError")

\* what the condition of the code rejects: an array of dtype uint32 whose
\* shape is not (4,); every other array goes to the generator
RbgRejectsWrongShapeOfUint32 ==
  (call # None /\ call.op = "rbg_random_bits") =>
    (error = "TypeError"
       <=> \/ call.args[1].shape # <<4>> /\ call.args[1].dtype = "uint32"
           \/ call.args[2] \notin {8, 16, 32, 64})

\* the generator has drawn bits from an int32 array of shape (4,)
RbgBitsFromInt32Array ==
  /\ call # None /\ call.op = "rbg_random_bits"
  /\ call.args[1].shape = <<4>> /\ call.args[1].dtype = "int32"
  /\ error = "none" /\ result # None /\ result.shape = call.args[3]

=============================================================================
